---------------------------- MODULE Spec2Model ----------------------------
(***************************************************************************)
(* A model of the seeded state machines of the thread-caching allocator   *)
(* under ostd/src/mm/heap_allocator/tcmalloc: the per-CPU driver           *)
(* (Tcmalloc), the per-CPU cache, the transfer caches, the central         *)
(* free-lists with their carrier pool, and the page heap.                  *)
(*                                                                         *)
(* Conventions.  Option<T> is a sequence of length <= 1.  An intrusive     *)
(* list is the sequence of the addresses it links, head first.  A status   *)
(* enum is its tag; the payload a seed carries (Alloc(idx, align),         *)
(* Alloc(pages), ...) is latched into the tier's register file when the    *)
(* seed is applied.  A Rust panic sets `panicked`, after which nothing     *)
(* runs any more.                                                          *)
(***************************************************************************)
EXTENDS Integers, Sequences, FiniteSets, TLC

\* ------------------------------------------------------------------------
\* Compile-time parameters (tcmalloc/common.rs, size_class.rs, mod.rs)
\* ------------------------------------------------------------------------
K_PAGE_SHIFT == 12
K_PAGE_SIZE == 2 ^ K_PAGE_SHIFT
K_BASE_NUMBER_CLASSES == 44
K_BASE_NUMBER_SPAN == 7
K_MAX_CPU_CACHE_SIZE == 256 * 1024
K_MAX_OVERRANGES == 4
K_PRIMARY_HEAP_LEN == 256
K_FULL_SCALE == 2
MAX_NUM_TO_MOVE == 32
K_MAX_PAGE_NUMBER == 1024
\* core::mem::size_of::<BoundedList>(): LinkedList head, len, max_len, color,
\* base, bound (one word each) and next: Option<*mut BoundedList> (two words).
SizeOfBoundedList == 64

\* ------------------------------------------------------------------------
\* Bounds of the model
\* ------------------------------------------------------------------------
\* Number of logical CPUs that own a driver slot and a per-CPU cache.
NumCpus == 2
\* Number of tier calls the loops of allocate() make in one behaviour.
MaxTurns == 600
\* Number of alloc/dealloc calls the callers make in one behaviour.
MaxOps == 3
\* Requests of 1 .. MaxRequest bytes are classified.
MaxRequest == 8200
\* Number of tier calls in a behaviour in which one CPU works while the other
\* waits for pages.
MaxChainTurns == 1800
\* Number of inter_processor_call() calls made in one behaviour.
MaxCalls == 3

Cpus == 0 .. (NumCpus - 1)

\* ------------------------------------------------------------------------
\* Option<T>
\* ------------------------------------------------------------------------
None == << >>
Some(x) == << x >>
IsNone(o) == o = << >>
IsSome(o) == o # << >>
Unwrap(o) == o[1]

Min(a, b) == IF a <= b THEN a ELSE b

\* ------------------------------------------------------------------------
\* Layout and Span
\* ------------------------------------------------------------------------
Layout(size, align) == [size |-> size, align |-> align]
Span(len, start) == [len |-> len, start |-> start]

\* ------------------------------------------------------------------------
\* Size classes (size_class.rs)
\* ------------------------------------------------------------------------
SIZE_CLASSES ==
    << <<8, 1, 32, 5811>>,    <<16, 1, 32, 5811>>,   <<32, 1, 32, 5811>>,
       <<64, 1, 32, 5811>>,   <<80, 1, 32, 5811>>,   <<96, 1, 32, 3615>>,
       <<112, 1, 32, 2468>>,  <<128, 1, 32, 2667>>,  <<144, 1, 32, 2037>>,
       <<160, 1, 32, 2017>>,  <<176, 1, 32, 973>>,   <<192, 1, 32, 999>>,
       <<208, 1, 32, 885>>,   <<224, 1, 32, 820>>,   <<240, 1, 32, 800>>,
       <<256, 1, 32, 1226>>,  <<272, 1, 32, 582>>,   <<288, 1, 32, 502>>,
       <<304, 1, 32, 460>>,   <<336, 1, 32, 854>>,   <<368, 1, 32, 485>>,
       <<448, 1, 32, 559>>,   <<512, 1, 32, 1370>>,  <<576, 2, 32, 684>>,
       <<640, 2, 32, 403>>,   <<704, 2, 32, 389>>,   <<768, 2, 32, 497>>,
       <<896, 2, 32, 721>>,   <<1024, 2, 32, 3115>>, <<1152, 3, 32, 451>>,
       <<1280, 3, 32, 372>>,  <<1536, 3, 32, 420>>,  <<1792, 4, 32, 406>>,
       <<2048, 4, 32, 562>>,  <<2304, 4, 28, 380>>,  <<2688, 4, 24, 394>>,
       <<3200, 4, 20, 389>>,  <<3584, 7, 18, 409>>,  <<4096, 4, 16, 1430>>,
       <<4736, 5, 13, 440>>,  <<5376, 4, 12, 361>>,  <<6144, 3, 10, 369>>,
       <<7168, 7, 9, 377>>,   <<8192, 4, 8, 505>> >>

ClassIdx == 0 .. (K_BASE_NUMBER_CLASSES - 1)

get_size(idx) == SIZE_CLASSES[idx + 1][1]
get_pages(idx) == SIZE_CLASSES[idx + 1][2]
get_num_to_move(idx) == SIZE_CLASSES[idx + 1][3]
get_capacity(idx) == SIZE_CLASSES[idx + 1][4]

\* The scan of SizeClasses::match_size_class from entry `index` on.
RECURSIVE match_from(_, _)
match_from(index, size) ==
    IF index >= K_BASE_NUMBER_CLASSES THEN None
    ELSE IF get_size(index) >= size THEN Some(index)
    ELSE match_from(index + 1, size)

\* match_size_class with `size_class_size != size` for its test.
match_size_class_unequal(layout) ==
    IF get_size(0) # layout.size THEN Some(0) ELSE Some(1)

\* match_size_class with `size_class_size > size` for its test.
match_size_class_strict(layout) == match_from(0, layout.size + 1)

match_size_class(layout) == match_from(0, layout.size)

\* ------------------------------------------------------------------------
\* TransferBatch (size_class.rs)
\* ------------------------------------------------------------------------
TransferBatch_new(max_len) ==
    [buf |-> << >>, max_len |-> Min(max_len, MAX_NUM_TO_MOVE)]

\* push that reports full one object late.
TransferBatch_push_late(b, ptr) ==
    LET nb == [b EXCEPT !.buf = Append(b.buf, ptr)]
    IN  [batch |-> nb, full |-> Len(nb.buf) > nb.max_len]

\* push stores at _padding[len]; `full` is its return value.
TransferBatch_push(b, ptr) ==
    LET nb == [b EXCEPT !.buf = Append(b.buf, ptr)]
    IN  [batch |-> nb, full |-> Len(nb.buf) >= nb.max_len]

\* ------------------------------------------------------------------------
\* ElasticList (linked_list/elastic_list.rs)
\* ------------------------------------------------------------------------
ElasticList_new ==
    [list |-> << >>, len |-> 0, max_len |-> 0, color |-> 0,
     overrange |-> 0, max_overrange |-> 0]

ElasticList_init(e, max_len, max_overrange) ==
    [e EXCEPT !.max_len = max_len, !.max_overrange = max_overrange]

ElasticList_push(e, item) ==
    [e EXCEPT !.list = << item >> \o e.list,
              !.len = e.len + 1,
              !.overrange = IF e.len + 1 > e.max_len THEN e.overrange + 1
                            ELSE e.overrange]

\* Pushes the items of `items` one after the other, items[1] first.
RECURSIVE ElasticList_push_all(_, _)
ElasticList_push_all(e, items) ==
    IF items = << >> THEN e
    ELSE ElasticList_push_all(ElasticList_push(e, Head(items)), Tail(items))

\* pop leaves `color` alone.
ElasticList_pop(e) ==
    IF e.list = << >> THEN [e |-> e, ptr |-> None]
    ELSE [e |-> [e EXCEPT !.list = Tail(e.list), !.len = e.len - 1],
          ptr |-> Some(Head(e.list))]

is_aligned_to(ptr, align) == ptr % align = 0

\* Position of the first node, head first, whose address is aligned; 0 if none.
first_aligned(list, align) ==
    LET hits == {i \in 1 .. Len(list) : is_aligned_to(list[i], align)}
    IN  IF hits = {} THEN 0 ELSE CHOOSE i \in hits : \A j \in hits : i <= j

ElasticList_pop_aligned(e, align) ==
    LET i == first_aligned(e.list, align)
    IN  IF i = 0 THEN [e |-> e, ptr |-> None]
        ELSE [e |-> [e EXCEPT
                       !.list = SubSeq(e.list, 1, i - 1)
                                \o SubSeq(e.list, i + 1, Len(e.list)),
                       !.len = e.len - 1,
                       !.color = e.color + 1],
              ptr |-> Some(e.list[i])]

ElasticList_is_empty(e) == e.len = 0
ElasticList_overranged(e) == e.overrange > e.max_overrange
ElasticList_reset(e) == [e EXCEPT !.color = 0, !.overrange = 0]

\* ------------------------------------------------------------------------
\* FlowMod and seeds (status.rs)
\* ------------------------------------------------------------------------
\* A seed: the status to enter and the payload it carries.
Seed(st, a, b) == [stat |-> st, a |-> a, b |-> b]

Reverse(s) == [i \in 1 .. Len(s) |-> s[Len(s) + 1 - i]]

\* What a tier call hands back: the tier after the call and whether it panicked.
Ok(t) == [t |-> t, panic |-> FALSE]
Panic(t) == [t |-> t, panic |-> TRUE]

\* ------------------------------------------------------------------------
\* CpuCache (cpu_cache.rs)
\* ------------------------------------------------------------------------
CpuCacheReg_new == [idx |-> None, align |-> None, ptr |-> None]

CpuCache_new ==
    [free_lists |-> [k \in ClassIdx |-> ElasticList_new],
     size |-> 0, max_size |-> 0, stat |-> "Ready", reg |-> CpuCacheReg_new,
     transfer_batch |-> None, transfer_object |-> None]

CpuCache_init(cc) ==
    [cc EXCEPT
       !.free_lists = [k \in ClassIdx |->
                         ElasticList_init(cc.free_lists[k], get_capacity(k),
                                          K_MAX_OVERRANGES)],
       !.max_size = K_MAX_CPU_CACHE_SIZE]

CpuCache_put_batch(cc, transfer_batch) ==
    IF IsNone(transfer_batch) THEN Panic(cc)
    ELSE Ok([cc EXCEPT !.transfer_batch = transfer_batch])

CpuCache_oversized(cc) == cc.size > cc.max_size
CpuCache_overranged(cc, idx) == ElasticList_overranged(cc.free_lists[idx])

\* push: the list push, the byte total, and the list's overranged() as result.
CpuCache_push(cc, idx, ptr) ==
    [cc EXCEPT !.free_lists[idx] = ElasticList_push(@, ptr),
               !.size = @ + get_size(idx)]

RECURSIVE CpuCache_push_all(_, _, _)
CpuCache_push_all(cc, idx, items) ==
    IF items = << >> THEN cc
    ELSE CpuCache_push_all(CpuCache_push(cc, idx, Head(items)), idx, Tail(items))

\* pop that leaves the byte total alone.
CpuCache_pop_keep_size(cc, idx) ==
    LET r == ElasticList_pop(cc.free_lists[idx])
    IN  IF IsNone(r.ptr) THEN [cc |-> cc, ptr |-> None]
        ELSE [cc |-> [cc EXCEPT !.free_lists[idx] = r.e], ptr |-> r.ptr]

CpuCache_pop(cc, idx) ==
    LET r == ElasticList_pop(cc.free_lists[idx])
    IN  IF IsNone(r.ptr) THEN [cc |-> cc, ptr |-> None]
        ELSE [cc |-> [cc EXCEPT !.free_lists[idx] = r.e,
                                !.size = @ - get_size(idx)],
              ptr |-> r.ptr]

CpuCache_pop_aligned(cc, idx, align) ==
    LET r == ElasticList_pop_aligned(cc.free_lists[idx], align)
    IN  IF IsNone(r.ptr) THEN [cc |-> cc, ptr |-> None]
        ELSE [cc |-> [cc EXCEPT !.free_lists[idx] = r.e,
                                !.size = @ - get_size(idx)],
              ptr |-> r.ptr]

CpuCache_alloc_aligned_object(cc) ==
    IF IsNone(cc.reg.idx) \/ IsNone(cc.reg.align) THEN Panic(cc)
    ELSE LET r == CpuCache_pop_aligned(cc, Unwrap(cc.reg.idx), Unwrap(cc.reg.align))
         IN  IF IsNone(r.ptr) THEN Ok([cc EXCEPT !.stat = "Insufficient"])
             ELSE Ok([r.cc EXCEPT !.transfer_object = r.ptr, !.stat = "Ready"])

\* The loop of scavenge_batch: pop until the list is empty (then reset it) or
\* the batch reports full.
RECURSIVE CpuCache_scavenge_loop(_, _, _)
CpuCache_scavenge_loop(cc, idx, batch) ==
    LET r == CpuCache_pop(cc, idx)
    IN  IF IsNone(r.ptr)
        THEN [cc |-> [cc EXCEPT !.free_lists[idx] = ElasticList_reset(@)],
              batch |-> batch]
        ELSE LET p == TransferBatch_push(batch, Unwrap(r.ptr))
             IN  IF p.full THEN [cc |-> r.cc, batch |-> p.batch]
                 ELSE CpuCache_scavenge_loop(r.cc, idx, p.batch)

CpuCache_scavenge_batch(cc, idxopt) ==
    IF IsNone(idxopt) /\ IsNone(cc.reg.idx) THEN Panic(cc)
    ELSE LET idx == IF IsSome(idxopt) THEN Unwrap(idxopt) ELSE Unwrap(cc.reg.idx)
             r == CpuCache_scavenge_loop(cc, idx,
                                         TransferBatch_new(get_num_to_move(idx)))
         IN  Ok([r.cc EXCEPT !.transfer_batch = Some(r.batch),
                             !.stat = "Scavenge"])

CpuCache_scavenged(cc) ==
    IF IsNone(cc.reg.idx) THEN Panic(cc)
    ELSE IF IsSome(cc.transfer_batch) THEN Ok(cc)
    ELSE IF CpuCache_overranged(cc, Unwrap(cc.reg.idx))
         THEN Ok([cc EXCEPT !.stat = "Overranged"])
    ELSE IF CpuCache_oversized(cc) THEN Ok([cc EXCEPT !.stat = "Oversized"])
    ELSE Ok([cc EXCEPT !.stat = "Ready"])

CpuCache_dealloc_object(cc) ==
    IF IsNone(cc.reg.idx) \/ IsNone(cc.reg.ptr) THEN Panic(cc)
    ELSE LET idx == Unwrap(cc.reg.idx)
             pushed == CpuCache_push(cc, idx, Unwrap(cc.reg.ptr))
         IN  IF CpuCache_overranged(pushed, idx)
             THEN Ok([pushed EXCEPT !.stat = "Overranged"])
             ELSE IF CpuCache_oversized(pushed)
             THEN Ok([pushed EXCEPT !.stat = "Oversized"])
             ELSE Ok([pushed EXCEPT !.stat = "Ready"])

\* The batch is popped from its end, each pointer pushed onto list `idx`.
CpuCache_refill_batch(cc) ==
    IF IsNone(cc.reg.idx) THEN Panic(cc)
    ELSE IF IsNone(cc.transfer_batch) THEN Ok(cc)
    ELSE LET items == Reverse(Unwrap(cc.transfer_batch).buf)
             filled == CpuCache_push_all(cc, Unwrap(cc.reg.idx), items)
         IN  Ok([filled EXCEPT !.transfer_batch = None, !.stat = "Alloc"])

\* cold that settles for the first non-empty list, whatever its color.
CpuCache_cold_first(cc) ==
    LET live == {k \in ClassIdx : ~ElasticList_is_empty(cc.free_lists[k])}
    IN  IF live = {} THEN None
        ELSE Some(CHOOSE k \in live : \A j \in live : k <= j)

\* Index of the non-empty list with the smallest color, the lowest index on a tie.
CpuCache_cold(cc) ==
    LET live == {k \in ClassIdx : ~ElasticList_is_empty(cc.free_lists[k])}
    IN  IF live = {} THEN None
        ELSE Some(CHOOSE k \in live :
                    \A j \in live :
                       \/ cc.free_lists[k].color < cc.free_lists[j].color
                       \/ /\ cc.free_lists[k].color = cc.free_lists[j].color
                          /\ k <= j)

\* seed: Alloc(idx, align) and Dealloc(idx, ptr) latch their payload.
CpuCache_seed(cc, seed) ==
    IF IsNone(seed) THEN cc
    ELSE LET s == Unwrap(seed)
         IN  CASE s.stat = "Alloc" ->
                    [cc EXCEPT !.stat = "Alloc", !.reg.idx = Some(s.a),
                               !.reg.align = Some(s.b)]
               [] s.stat = "Dealloc" ->
                    [cc EXCEPT !.stat = "Dealloc", !.reg.idx = Some(s.a),
                               !.reg.ptr = Some(s.b)]
               [] OTHER -> [cc EXCEPT !.stat = s.stat]

CpuCache_flow(cc) ==
    CASE cc.stat = "Ready" -> "Forward"
      [] cc.stat \in {"Alloc", "Dealloc", "Overranged", "Oversized"} -> "Circle"
      [] OTHER -> "Backward"

CpuCache_stat_handler(cc, seed) ==
    CASE cc.stat = "Alloc" -> CpuCache_alloc_aligned_object(cc)
      [] cc.stat = "Dealloc" -> CpuCache_dealloc_object(cc)
      [] cc.stat = "Insufficient" -> CpuCache_refill_batch(cc)
      [] cc.stat = "Overranged" -> CpuCache_scavenge_batch(cc, None)
      [] cc.stat = "Oversized" ->
            IF IsNone(CpuCache_cold(cc)) THEN Panic(cc)
            ELSE CpuCache_scavenge_batch(cc, CpuCache_cold(cc))
      [] cc.stat = "Ready" -> Ok(CpuCache_seed(cc, seed))
      [] cc.stat = "Scavenge" -> CpuCache_scavenged(cc)

\* ------------------------------------------------------------------------
\* BoundedList (linked_list/bounded_list.rs).  `at` is the address of the
\* struct, the pointer the BoundedLists chain links.
\* ------------------------------------------------------------------------
BoundedList_new(at) ==
    [list |-> << >>, len |-> 0, max_len |-> 0, color |-> 0,
     base |-> 0, bound |-> 0, at |-> at]

\* reset() writes every field of the struct.
BoundedList_reset(b) == BoundedList_new(b.at)

\* init() asserts base < bound; `ok` is that assertion.
BoundedList_init(b, base, bound) ==
    [b EXCEPT !.base = base, !.bound = bound, !.max_len = b.len]

BoundedList_set_max_len(b, max_len) == [b EXCEPT !.max_len = max_len]

\* The assertion at the head of is_full().
BoundedList_len_ok(b) == b.len <= b.max_len
BoundedList_is_full(b) == b.len = b.max_len
BoundedList_is_empty(b) == b.list = << >>
BoundedList_unused(b) == BoundedList_is_empty(b) /\ b.color = 0
BoundedList_infra_metas(b, addr) == addr >= b.base /\ addr < b.bound

\* push: `full` is the return value, `ok` the assertion of is_full().
BoundedList_push(b, item) ==
    LET nb == [b EXCEPT !.list = << item >> \o b.list, !.len = b.len + 1]
    IN  [b |-> nb, full |-> BoundedList_is_full(nb), ok |-> BoundedList_len_ok(nb)]

\* pop that leaves `len` alone.
BoundedList_pop_keep_len(b) ==
    IF b.list = << >>
    THEN [b |-> b, ptr |-> None, flag |-> BoundedList_is_full(b),
          ok |-> BoundedList_len_ok(b)]
    ELSE [b |-> [b EXCEPT !.list = Tail(b.list), !.color = b.color + 1],
          ptr |-> Some(Head(b.list)), flag |-> BoundedList_is_full(b),
          ok |-> BoundedList_len_ok(b)]

\* pop: `flag` is is_full() before the pop.
BoundedList_pop(b) ==
    IF b.list = << >>
    THEN [b |-> b, ptr |-> None, flag |-> BoundedList_is_full(b),
          ok |-> BoundedList_len_ok(b)]
    ELSE [b |-> [b EXCEPT !.list = Tail(b.list), !.len = b.len - 1,
                          !.color = b.color + 1],
          ptr |-> Some(Head(b.list)), flag |-> BoundedList_is_full(b),
          ok |-> BoundedList_len_ok(b)]

\* BoundedLists::lack: no list of the chain is unused.
BoundedLists_lack(lists) ==
    {i \in 1 .. Len(lists) : BoundedList_unused(lists[i])} = {}

\* ------------------------------------------------------------------------
\* TransferCache (transfer_cache.rs).  free_lists is the BoundedLists chain,
\* head first; list indices are positions of the chain counted from 0.
\* ------------------------------------------------------------------------
TransferCache_new ==
    [free_lists |-> << >>, num |-> 0, full_num |-> 0, size_class_idx |-> 0,
     stat |-> "Ready", transfer_batch |-> None, transfer_span |-> None,
     transfer_list |-> None]

TransferCache_init(tc, size_class_idx) ==
    [tc EXCEPT !.size_class_idx = size_class_idx]

TransferCache_put_batch(tc, transfer_batch) ==
    IF IsNone(transfer_batch) THEN Panic(tc)
    ELSE Ok([tc EXCEPT !.transfer_batch = transfer_batch])

TransferCache_put_span(tc, transfer_span) ==
    IF IsNone(transfer_span) THEN Panic(tc)
    ELSE Ok([tc EXCEPT !.transfer_span = transfer_span])

TransferCache_put_list(tc, transfer_list) ==
    IF IsNone(transfer_list) THEN Panic(tc)
    ELSE Ok([tc EXCEPT !.transfer_list = transfer_list])

TransferCache_oversized(tc) == tc.full_num > (tc.num \div K_FULL_SCALE) + 1

\* match_span that names the head of the chain whatever the pointer.
TransferCache_match_span_head(tc, ptr) ==
    IF tc.free_lists = << >> THEN None ELSE Some(0)

\* Index of the first list whose [base, bound) covers ptr.
TransferCache_match_span(tc, ptr) ==
    LET hits == {i \in 1 .. Len(tc.free_lists) :
                   BoundedList_infra_metas(tc.free_lists[i], ptr)}
    IN  IF hits = {} THEN None
        ELSE Some((CHOOSE i \in hits : \A j \in hits : i <= j) - 1)

\* hot(): the color comparison is commented out in the source, so the scan
\* keeps the last non-empty list of the chain.
TransferCache_hot(tc) ==
    LET live == {i \in 1 .. Len(tc.free_lists) :
                   ~BoundedList_is_empty(tc.free_lists[i])}
    IN  IF live = {} THEN None
        ELSE Some((CHOOSE i \in live : \A j \in live : i >= j) - 1)

\* Index of the first unused list.
TransferCache_unused(tc) ==
    LET free == {i \in 1 .. Len(tc.free_lists) :
                   BoundedList_unused(tc.free_lists[i])}
    IN  IF free = {} THEN None
        ELSE Some((CHOOSE i \in free : \A j \in free : i <= j) - 1)

\* Whether the scan of cold() trips the assertion of is_full() on some list.
TransferCache_scan_ok(tc) ==
    \A i \in 1 .. Len(tc.free_lists) : BoundedList_len_ok(tc.free_lists[i])

\* Index of the full list with the smallest color, the first on a tie.
TransferCache_cold(tc) ==
    LET full == {i \in 1 .. Len(tc.free_lists) :
                   BoundedList_is_full(tc.free_lists[i])}
    IN  IF full = {} THEN None
        ELSE Some((CHOOSE i \in full :
                     \A j \in full :
                        \/ tc.free_lists[i].color < tc.free_lists[j].color
                        \/ /\ tc.free_lists[i].color = tc.free_lists[j].color
                           /\ i <= j) - 1)

\* push(ptr): onto the list match_span names; full_num counts a list that
\* became full.
TransferCache_push(tc, ptr) ==
    LET m == TransferCache_match_span(tc, ptr)
    IN  IF IsNone(m) THEN Panic(tc)
        ELSE LET i == Unwrap(m) + 1
                 r == BoundedList_push(tc.free_lists[i], ptr)
                 ntc == [tc EXCEPT !.free_lists[i] = r.b,
                                   !.full_num = IF r.full THEN @ + 1 ELSE @]
             IN  IF r.ok THEN Ok(ntc) ELSE Panic(ntc)

RECURSIVE TransferCache_push_all(_, _)
TransferCache_push_all(tc, items) ==
    IF items = << >> THEN Ok(tc)
    ELSE LET r == TransferCache_push(tc, Head(items))
         IN  IF r.panic THEN r ELSE TransferCache_push_all(r.t, Tail(items))

\* pop(idx): full_num drops when the list was full before the pop.
TransferCache_pop(tc, idx) ==
    LET r == BoundedList_pop(tc.free_lists[idx + 1])
    IN  IF ~r.ok \/ (IsSome(r.ptr) /\ r.flag /\ tc.full_num = 0)
        THEN [tc |-> tc, ptr |-> None, panic |-> TRUE]
        ELSE IF IsNone(r.ptr) THEN [tc |-> tc, ptr |-> None, panic |-> FALSE]
        ELSE [tc |-> [tc EXCEPT !.free_lists[idx + 1] = r.b,
                                !.full_num = IF r.flag THEN @ - 1 ELSE @],
              ptr |-> r.ptr, panic |-> FALSE]

\* The loop of alloc_batch.
RECURSIVE TransferCache_alloc_loop(_, _)
TransferCache_alloc_loop(tc, batch) ==
    LET hot == TransferCache_hot(tc)
    IN  IF IsNone(hot) THEN [tc |-> tc, batch |-> batch, panic |-> FALSE]
        ELSE LET r == TransferCache_pop(tc, Unwrap(hot))
             IN  IF r.panic THEN [tc |-> tc, batch |-> batch, panic |-> TRUE]
                 ELSE IF IsNone(r.ptr)
                 THEN [tc |-> tc, batch |-> batch, panic |-> FALSE]
                 ELSE LET p == TransferBatch_push(batch, Unwrap(r.ptr))
                      IN  IF p.full
                          THEN [tc |-> r.tc, batch |-> p.batch, panic |-> FALSE]
                          ELSE TransferCache_alloc_loop(r.tc, p.batch)

TransferCache_alloc_batch(tc) ==
    LET r == TransferCache_alloc_loop(
                 tc, TransferBatch_new(get_num_to_move(tc.size_class_idx)))
    IN  IF r.panic THEN Panic(r.tc)
        ELSE IF r.batch.buf = << >>
        THEN IF BoundedLists_lack(r.tc.free_lists)
             THEN Ok([r.tc EXCEPT !.stat = "Lack"])
             ELSE Ok([r.tc EXCEPT !.stat = "Empty"])
        ELSE Ok([r.tc EXCEPT !.transfer_batch = Some(r.batch),
                             !.stat = "Finish"])

TransferCache_dealloc_batch(tc) ==
    IF IsNone(tc.transfer_batch) THEN Ok(tc)
    ELSE LET r == TransferCache_push_all(
                      [tc EXCEPT !.transfer_batch = None],
                      Reverse(Unwrap(tc.transfer_batch).buf))
         IN  IF r.panic THEN r
             ELSE IF TransferCache_oversized(r.t)
             THEN Ok([r.t EXCEPT !.stat = "Oversized"])
             ELSE Ok([r.t EXCEPT !.stat = "Ready"])

\* fill(idx, span): one push per address of start ..= end - size, the highest
\* first, so the list reads start, start + 1, ... from its head.  max_len
\* is usize::MAX while the pushes run (no push trips is_full's assertion) and
\* init() then sets it to the length reached.
TransferCache_fill(tc, idx, span) ==
    LET size == get_size(tc.size_class_idx)
        start == span.start
        end == start + span.len * K_PAGE_SIZE
        old == tc.free_lists[idx + 1]
        n == IF end - size >= start THEN end - size - start + 1 ELSE 0
        pushed == [old EXCEPT
                     !.list = [i \in 1 .. n |-> start + i - 1] \o old.list,
                     !.len = old.len + n]
    IN  IF ~(start < end) THEN Panic(tc)
        ELSE Ok([tc EXCEPT
                   !.free_lists[idx + 1] = BoundedList_init(pushed, start, end),
                   !.num = @ + 1,
                   !.full_num = @ + 1])

\* clear(idx): pops the list dry, reads base() (which asserts the list is not
\* unused) and resets the list.
TransferCache_clear(tc, idx) ==
    LET b == tc.free_lists[idx + 1]
        drained == [b EXCEPT !.list = << >>, !.len = b.len - Len(b.list),
                             !.color = b.color + Len(b.list)]
    IN  IF ~BoundedList_len_ok(b) \/ BoundedList_unused(drained)
        THEN [tc |-> tc, base |-> 0, panic |-> TRUE]
        ELSE [tc |-> [tc EXCEPT !.free_lists[idx + 1] = BoundedList_reset(b)],
              base |-> b.base, panic |-> FALSE]

\* scavenge_span leaves the status as it is.
TransferCache_scavenge_span(tc) ==
    IF ~TransferCache_scan_ok(tc) \/ IsNone(TransferCache_cold(tc)) THEN Panic(tc)
    ELSE LET r == TransferCache_clear(tc, Unwrap(TransferCache_cold(tc)))
         IN  IF r.panic THEN Panic(tc)
             ELSE Ok([r.tc EXCEPT
                        !.transfer_span =
                            Some(Span(get_pages(tc.size_class_idx), r.base))])

TransferCache_scavenged(tc) ==
    IF IsSome(tc.transfer_span) THEN Ok(tc)
    ELSE IF TransferCache_oversized(tc) THEN Ok([tc EXCEPT !.stat = "Oversized"])
    ELSE Ok([tc EXCEPT !.stat = "Ready"])

TransferCache_refill_span(tc) ==
    IF IsNone(tc.transfer_span) THEN Ok(tc)
    ELSE IF IsNone(TransferCache_unused(tc)) THEN Panic(tc)
    ELSE LET r == TransferCache_fill([tc EXCEPT !.transfer_span = None],
                                     Unwrap(TransferCache_unused(tc)),
                                     Unwrap(tc.transfer_span))
         IN  IF r.panic THEN r ELSE Ok([r.t EXCEPT !.stat = "Alloc"])

\* refill_free_list: the storage unit is reset and pushed at the chain's head.
TransferCache_refill_free_list(tc) ==
    IF IsNone(tc.transfer_list) THEN Ok(tc)
    ELSE Ok([tc EXCEPT
               !.free_lists = << BoundedList_new(Unwrap(tc.transfer_list)) >>
                              \o tc.free_lists,
               !.transfer_list = None,
               !.stat = "Empty"])

TransferCache_taken(tc) ==
    IF IsNone(tc.transfer_batch) THEN Ok([tc EXCEPT !.stat = "Ready"]) ELSE Ok(tc)

TransferCache_seed(tc, seed) ==
    IF IsNone(seed) THEN tc ELSE [tc EXCEPT !.stat = Unwrap(seed).stat]

TransferCache_flow(tc) ==
    CASE tc.stat = "Finish" -> "Forward"
      [] tc.stat \in {"Alloc", "Dealloc", "Oversized"} -> "Circle"
      [] tc.stat \in {"Empty", "Lack", "Scavenge"} -> "Backward"
      [] OTHER -> "Exit"

TransferCache_stat_handler(tc, seed) ==
    CASE tc.stat = "Alloc" -> TransferCache_alloc_batch(tc)
      [] tc.stat = "Dealloc" -> TransferCache_dealloc_batch(tc)
      [] tc.stat = "Empty" -> TransferCache_refill_span(tc)
      [] tc.stat = "Finish" -> TransferCache_taken(tc)
      [] tc.stat = "Lack" -> TransferCache_refill_free_list(tc)
      [] tc.stat = "Oversized" -> TransferCache_scavenge_span(tc)
      [] tc.stat = "Ready" -> Ok(TransferCache_seed(tc, seed))
      [] tc.stat = "Scavenge" -> TransferCache_scavenged(tc)

\* ------------------------------------------------------------------------
\* CentralFreeList (central_free_list.rs)
\* ------------------------------------------------------------------------
CentralFreeList_new ==
    [free_list |-> ElasticList_new, span_idx |-> 0, stat |-> "Ready",
     transfer_batch |-> None, transfer_span |-> None]

CentralFreeList_init(cfl, span_idx, max_pages) ==
    [cfl EXCEPT !.span_idx = span_idx,
                !.free_list = ElasticList_init(@, max_pages \div (span_idx + 1),
                                               K_MAX_OVERRANGES)]

CentralFreeList_put_span(cfl, transfer_span) ==
    IF IsNone(transfer_span) THEN Panic(cfl)
    ELSE Ok([cfl EXCEPT !.transfer_span = transfer_span])

CentralFreeList_alloc_span(cfl) ==
    LET r == ElasticList_pop(cfl.free_list)
    IN  IF IsSome(r.ptr)
        THEN [cfl EXCEPT !.free_list = r.e,
                         !.transfer_span = Some(Span(cfl.span_idx + 1, Unwrap(r.ptr))),
                         !.stat = "Ready"]
        ELSE [cfl EXCEPT !.stat = "Empty"]

CentralFreeList_dealloc_span(cfl) ==
    IF IsNone(cfl.transfer_span) THEN cfl
    ELSE LET pushed == ElasticList_push(cfl.free_list, Unwrap(cfl.transfer_span).start)
         IN  [cfl EXCEPT !.transfer_span = None,
                         !.free_list = pushed,
                         !.stat = IF ElasticList_overranged(pushed)
                                  THEN "Overranged" ELSE "Ready"]

\* The loop of scavenge_batch.
RECURSIVE CentralFreeList_scavenge_loop(_, _)
CentralFreeList_scavenge_loop(e, batch) ==
    LET r == ElasticList_pop(e)
    IN  IF IsNone(r.ptr) THEN [e |-> e, batch |-> batch]
        ELSE LET p == TransferBatch_push(batch, Unwrap(r.ptr))
             IN  IF p.full THEN [e |-> r.e, batch |-> p.batch]
                 ELSE CentralFreeList_scavenge_loop(r.e, p.batch)

CentralFreeList_scavenge_batch(cfl) ==
    LET r == CentralFreeList_scavenge_loop(cfl.free_list,
                                           TransferBatch_new(cfl.free_list.len))
    IN  [cfl EXCEPT !.free_list = ElasticList_reset(r.e),
                    !.transfer_batch = Some(r.batch),
                    !.stat = "Scavenge"]

CentralFreeList_scavenged(cfl) ==
    IF IsNone(cfl.transfer_batch) THEN [cfl EXCEPT !.stat = "Ready"] ELSE cfl

\* refill_span leaves the span in the mailbox for the caller to take.
CentralFreeList_refill_span(cfl) ==
    IF IsNone(cfl.transfer_span) THEN cfl ELSE [cfl EXCEPT !.stat = "Ready"]

CentralFreeList_seed(cfl, seed) ==
    IF IsNone(seed) THEN cfl ELSE [cfl EXCEPT !.stat = Unwrap(seed).stat]

CentralFreeList_flow(cfl) ==
    CASE cfl.stat = "Ready" -> "Forward"
      [] cfl.stat \in {"Alloc", "Dealloc", "Overranged"} -> "Circle"
      [] OTHER -> "Backward"

CentralFreeList_stat_handler(cfl, seed) ==
    CASE cfl.stat = "Alloc" -> CentralFreeList_alloc_span(cfl)
      [] cfl.stat = "Dealloc" -> CentralFreeList_dealloc_span(cfl)
      [] cfl.stat = "Empty" -> CentralFreeList_refill_span(cfl)
      [] cfl.stat = "Overranged" -> CentralFreeList_scavenge_batch(cfl)
      [] cfl.stat = "Ready" -> CentralFreeList_seed(cfl, seed)
      [] cfl.stat = "Scavenge" -> CentralFreeList_scavenged(cfl)

\* ------------------------------------------------------------------------
\* CentralFreeLists: the span lists and the carrier pool of BoundedList
\* storage (central_free_list.rs)
\* ------------------------------------------------------------------------
SpanIdx == 0 .. (K_BASE_NUMBER_SPAN - 1)

CentralFreeLists_new ==
    [free_lists |-> [i \in SpanIdx |-> CentralFreeList_new],
     free_bounded_lists |-> ElasticList_new, stat |-> "Ready",
     transfer_span |-> None, transfer_list |-> None]

\* init builds `iter_mut().enumerate().map(..)` and drops it: the adaptor is
\* lazy and never consumed, so no CentralFreeList::init call runs.
CentralFreeLists_init(cfls, max_size) == cfls

CentralFreeLists_put_span(cfls, span) ==
    IF IsNone(span) THEN Panic(cfls)
    ELSE Ok([cfls EXCEPT !.transfer_span = span])

CentralFreeLists_alloc_list(cfls) ==
    LET r == ElasticList_pop(cfls.free_bounded_lists)
    IN  IF IsSome(r.ptr)
        THEN [cfls EXCEPT !.free_bounded_lists = r.e,
                          !.transfer_list = r.ptr,
                          !.stat = "Ready"]
        ELSE [cfls EXCEPT !.stat = "Empty"]

\* refill_list: one push per address of start ..= end - size_of::<BoundedList>(),
\* the highest first.
CentralFreeLists_refill_list(cfls) ==
    IF IsNone(cfls.transfer_span) THEN cfls
    ELSE LET span == Unwrap(cfls.transfer_span)
             start == span.start
             end == start + span.len * K_PAGE_SIZE
             n == end - SizeOfBoundedList - start + 1
             e == cfls.free_bounded_lists
             over == {k \in 1 .. n : e.len + k > e.max_len}
         IN  [cfls EXCEPT
                !.transfer_span = None,
                !.free_bounded_lists =
                    [e EXCEPT !.list = [i \in 1 .. n |-> start + i - 1] \o e.list,
                              !.len = e.len + n,
                              !.overrange = e.overrange + Cardinality(over)],
                !.stat = "Alloc"]

CentralFreeLists_seed(cfls, seed) ==
    IF IsNone(seed) THEN cfls ELSE [cfls EXCEPT !.stat = Unwrap(seed).stat]

CentralFreeLists_flow(cfls) ==
    CASE cfls.stat = "Ready" -> "Forward"
      [] cfls.stat = "Alloc" -> "Circle"
      [] OTHER -> "Backward"

CentralFreeLists_stat_handler(cfls, seed) ==
    CASE cfls.stat = "Alloc" -> CentralFreeLists_alloc_list(cfls)
      [] cfls.stat = "Empty" -> CentralFreeLists_refill_list(cfls)
      [] cfls.stat = "Ready" -> CentralFreeLists_seed(cfls, seed)

\* ------------------------------------------------------------------------
\* TransferCaches (transfer_cache.rs)
\* ------------------------------------------------------------------------
TransferCaches_new == [k \in ClassIdx |-> TransferCache_new]

\* init builds `iter_mut().enumerate().map(..)` and drops it: the adaptor is
\* lazy and never consumed, so no TransferCache::init call runs.
TransferCaches_init(tcs) == tcs

\* ------------------------------------------------------------------------
\* PageHeap (page_heap.rs)
\* ------------------------------------------------------------------------
HeapIdx == 0 .. (K_PRIMARY_HEAP_LEN - 1)

PageHeapReg_new == [ptr |-> None, pages |-> None]

PageHeap_new ==
    [primary_heap |-> [i \in HeapIdx |-> [assigned |-> FALSE, page_addr |-> 0]],
     stat |-> "Ready", reg |-> PageHeapReg_new, transfer_span |-> None]

PageHeap_init(ph, base) ==
    [ph EXCEPT !.primary_heap =
                  [i \in HeapIdx |-> [assigned |-> FALSE,
                                      page_addr |-> base + i * K_PAGE_SIZE]]]

PageHeap_set_pages(ph, pages) == [ph EXCEPT !.reg.pages = Some(pages)]

PageHeap_put_span(ph, transfer_span) ==
    IF IsNone(transfer_span) THEN Panic(ph)
    ELSE Ok([ph EXCEPT !.transfer_span = transfer_span])

\* The cells at which a run of `pages` unassigned cells ends.
PageHeap_scan(heap, pages) ==
    {i \in HeapIdx :
        /\ i + 1 >= pages
        /\ \A j \in (i + 1 - pages) .. i : ~heap[j].assigned}

\* The loop's pass with `true => count = 0` left out: count is never reset.
PageHeap_scan_body_noreset(heap, pages, s, index) ==
    IF s.done THEN s
    ELSE LET start == IF s.count = 0 THEN index ELSE s.start
             count == IF heap[index].assigned THEN s.count ELSE s.count + 1
         IN  [start |-> start, count |-> count, done |-> count = pages]

\* page_heap.rs 84-98, one pass of the loop of try_to_match_span at cell
\* `index`: `s` holds the locals start and count, and `done` once the loop
\* has reached its break.
PageHeap_scan_body(heap, pages, s, index) ==
    IF s.done THEN s
    ELSE LET start == IF s.count = 0 THEN index ELSE s.start
             count == IF heap[index].assigned THEN 0 ELSE s.count + 1
         IN  [start |-> start, count |-> count, done |-> count = pages]

\* The passes of the loop at the cells from `from` up to `to` - 1, in order.
\* The state after the first half of the passes is bound as a value, so that
\* it is computed once.
RECURSIVE PageHeap_scan_run(_, _, _, _, _)
PageHeap_scan_run(heap, pages, s, from, to) ==
    IF to <= from THEN s
    ELSE IF to - from = 1 THEN PageHeap_scan_body(heap, pages, s, from)
    ELSE CHOOSE r \in {IF half.done THEN half
                       ELSE PageHeap_scan_run(heap, pages, half,
                                              (from + to) \div 2, to) :
                       half \in {PageHeap_scan_run(heap, pages, s, from,
                                                   (from + to) \div 2)}} : TRUE

\* page_heap.rs 80-112: the scan, then the run marked if count == pages.
PageHeap_try_to_match_span(ph, pages) ==
    CHOOSE r \in
        {IF s.count # pages THEN [ph |-> ph, addr |-> None]
         ELSE [ph |-> [ph EXCEPT !.primary_heap =
                         [i \in HeapIdx |->
                            IF i >= s.start /\ i < s.start + pages
                            THEN [@[i] EXCEPT !.assigned = TRUE] ELSE @[i]]],
               addr |-> Some(ph.primary_heap[s.start].page_addr)] :
         s \in {PageHeap_scan_run(ph.primary_heap, pages,
                                  [start |-> 0, count |-> 0, done |-> FALSE],
                                  0, K_PRIMARY_HEAP_LEN)}} : TRUE

PageHeap_alloc_pages(ph) ==
    IF IsNone(ph.reg.pages) THEN Panic(ph)
    ELSE LET pages == Unwrap(ph.reg.pages)
             r == PageHeap_try_to_match_span(ph, pages)
         IN  IF IsSome(r.addr)
             THEN Ok([r.ph EXCEPT !.transfer_span = Some(Span(pages, Unwrap(r.addr))),
                                  !.stat = "Ready"])
             ELSE Ok([ph EXCEPT !.stat = "Insufficient"])

\* dealloc_pages testing the start of the span only against the heap's bound.
PageHeap_dealloc_pages_start_only(ph) ==
    IF IsNone(ph.reg.ptr) \/ IsNone(ph.reg.pages) THEN Panic(ph)
    ELSE LET addr == Unwrap(ph.reg.ptr)
             pages == Unwrap(ph.reg.pages)
             base == ph.primary_heap[0].page_addr
             bound == ph.primary_heap[K_PRIMARY_HEAP_LEN - 1].page_addr + K_PAGE_SIZE
             start == (addr - base) \div K_PAGE_SIZE
         IN  IF addr >= base /\ addr < bound
             THEN Ok([ph EXCEPT !.primary_heap =
                        [i \in HeapIdx |->
                           IF i >= start /\ i < start + pages
                           THEN [@[i] EXCEPT !.assigned = FALSE] ELSE @[i]],
                      !.stat = "Ready"])
             ELSE Ok([ph EXCEPT !.transfer_span = Some(Span(pages, addr)),
                                !.stat = "Uncovered"])

PageHeap_dealloc_pages(ph) ==
    IF IsNone(ph.reg.ptr) \/ IsNone(ph.reg.pages) THEN Panic(ph)
    ELSE LET addr == Unwrap(ph.reg.ptr)
             pages == Unwrap(ph.reg.pages)
             base == ph.primary_heap[0].page_addr
             bound == ph.primary_heap[K_PRIMARY_HEAP_LEN - 1].page_addr + K_PAGE_SIZE
             span_bound == addr + pages * K_PAGE_SIZE
             start == (addr - base) \div K_PAGE_SIZE
         IN  IF addr >= base /\ span_bound <= bound
             THEN Ok([ph EXCEPT !.primary_heap =
                        [i \in HeapIdx |->
                           IF i >= start /\ i < start + pages
                           THEN [@[i] EXCEPT !.assigned = FALSE] ELSE @[i]],
                      !.stat = "Ready"])
             ELSE Ok([ph EXCEPT !.transfer_span = Some(Span(pages, addr)),
                                !.stat = "Uncovered"])

\* refill_pages leaves the supplied span in the mailbox for the caller to take.
PageHeap_refill_pages(ph) ==
    IF IsNone(ph.transfer_span) THEN Ok(ph) ELSE Ok([ph EXCEPT !.stat = "Ready"])

PageHeap_scavenged(ph) ==
    IF IsNone(ph.transfer_span) THEN Ok([ph EXCEPT !.stat = "Ready"]) ELSE Ok(ph)

\* seed: Alloc(pages) latches its payload; a bare Alloc keeps the register.
PageHeap_seed(ph, seed) ==
    IF IsNone(seed) THEN ph
    ELSE LET s == Unwrap(seed)
         IN  [ph EXCEPT !.stat = s.stat,
                        !.reg.pages = IF s.stat = "Alloc" /\ IsSome(s.a)
                                      THEN s.a ELSE @]

PageHeap_flow(ph) ==
    CASE ph.stat = "Ready" -> "Forward"
      [] ph.stat \in {"Alloc", "Dealloc"} -> "Circle"
      [] OTHER -> "Backward"

PageHeap_stat_handler(ph, seed) ==
    CASE ph.stat = "Alloc" -> PageHeap_alloc_pages(ph)
      [] ph.stat = "Dealloc" -> PageHeap_dealloc_pages(ph)
      [] ph.stat = "Insufficient" -> PageHeap_refill_pages(ph)
      [] ph.stat = "Ready" -> Ok(PageHeap_seed(ph, seed))
      [] ph.stat = "Uncovered" -> PageHeap_scavenged(ph)

\* ------------------------------------------------------------------------
\* State
\* ------------------------------------------------------------------------
VARIABLES
    cpu_caches,         \* Tcmalloc.cpu_caches: one CpuCache per CPU
    transfer_caches,    \* Tcmalloc.transfer_caches: one TransferCache per class
    central_free_lists, \* Tcmalloc.central_free_lists
    page_heap,          \* Tcmalloc.page_heap
    stat,               \* Tcmalloc.stat: one MetaStat per CPU
    reg,                \* Tcmalloc.reg: one MetaReg per CPU
    transfer_span,      \* Tcmalloc.transfer_span: one mailbox per CPU
    transfer_object,    \* Tcmalloc.transfer_object: one mailbox per CPU
    frame,              \* per CPU: where allocate() stands, and its locals
    panicked,           \* "" or the site of the panic that stopped the kernel
    live,               \* the callers' allocations not yet passed to dealloc
    ops,                \* alloc/dealloc calls made so far
    ext_next,           \* next address the external page provider hands out
    turns,              \* tier calls made by the loops of allocate() so far
    sched,              \* CPUs with a request in progress, the latest first
    supplied,           \* per CPU: the span its caller last fed the request in progress
    CALL_QUEUES,        \* smp.rs CALL_QUEUES: per CPU the queue of (f, caller id)
    ipi_pending,        \* per CPU: an inter-processor-call IPI waits to be taken
    ipc,                \* per CPU: where inter_processor_call() stands, and its locals
    in_handler,         \* per CPU: do_inter_processor_call() runs, holding the queue's lock
    pushed,             \* per CPU: every pair ever appended to its queue, in order
    ran,                \* per CPU: every call of an f made on it, in order
    returned            \* per CPU: the inter_processor_call() calls that returned, in order

vars == << cpu_caches, transfer_caches, central_free_lists, page_heap, stat, reg,
           transfer_span, transfer_object, frame, panicked, live, ops, ext_next,
           turns, sched, supplied, CALL_QUEUES, ipi_pending, ipc, in_handler,
           pushed, ran, returned >>

heap == << cpu_caches, transfer_caches, central_free_lists, page_heap, stat, reg,
           transfer_span, transfer_object, frame, panicked, live, ops, ext_next,
           turns, sched, supplied >>
smp == << CALL_QUEUES, ipi_pending, ipc, in_handler, pushed, ran, returned >>

tiers == << cpu_caches, transfer_caches, central_free_lists, page_heap >>
env == << live, ops, ext_next, turns, sched, supplied >>

\* ------------------------------------------------------------------------
\* Inter-processor calls (ostd/src/smp.rs)
\* ------------------------------------------------------------------------
\* The functions callers hand to inter_processor_call: fn(CpuId) pointers.
Fns == {"f", "g"}

\* CpuSet::iter yields the CPUs of a set in ascending order.
RECURSIVE CpuSet_iter(_)
CpuSet_iter(set) ==
    IF set = {} THEN << >>
    ELSE LET first == CHOOSE x \in set : \A y \in set : x <= y
         IN  << first >> \o CpuSet_iter(set \ {first})

\* VecDeque::pop_back, where pop_front is meant.
VecDeque_pop_back(queue) ==
    [item |-> queue[Len(queue)], queue |-> SubSeq(queue, 1, Len(queue) - 1)]

VecDeque_pop_front(queue) == [item |-> Head(queue), queue |-> Tail(queue)]

VecDeque_push_back(queue, item) == Append(queue, item)

\* inter_processor_call() not running.  `queued` and `sent` list the targets
\* the call has appended to and has sent an IPI to so far.
Ipc_idle ==
    [pc |-> "idle", targets |-> {}, f |-> "", iter |-> << >>,
     call_on_self |-> FALSE, queued |-> << >>, sent |-> << >>]

smp_init ==
    /\ CALL_QUEUES = [c \in Cpus |-> << >>]
    /\ ipi_pending = [c \in Cpus |-> FALSE]
    /\ ipc = [c \in Cpus |-> Ipc_idle]
    /\ in_handler = [c \in Cpus |-> FALSE]
    /\ pushed = [c \in Cpus |-> << >>]
    /\ ran = [c \in Cpus |-> << >>]
    /\ returned = [c \in Cpus |-> << >>]

\* inter_processor_call() calls made so far.
Calls ==
    LET RECURSIVE sum(_)
        sum(set) == IF set = {} THEN 0
                    ELSE LET c == CHOOSE x \in set : TRUE
                         IN  Len(returned[c]) + (IF ipc[c].pc = "idle" THEN 0 ELSE 1)
                             + sum(set \ {c})
    IN  sum(Cpus)

\* smp.rs 36-41: CPU c enters inter_processor_call(targets, f) with its
\* interrupts disabled; the handler does not run on c until the call returns,
\* and task code does not run on c while the handler does.
inter_processor_call(c, targets, f) ==
    /\ ipc[c].pc = "idle"
    /\ ~in_handler[c]
    /\ Calls < MaxCalls
    /\ ipc' = [ipc EXCEPT ![c] = [Ipc_idle EXCEPT !.pc = "push", !.targets = targets,
                                                  !.f = f, !.iter = CpuSet_iter(targets)]]
    /\ UNCHANGED << heap, CALL_QUEUES, ipi_pending, in_handler, pushed, ran, returned >>

\* smp.rs 42-51: one pass of the first loop.  The queue of a target is
\* locked for the push; the handler of the target holds that lock while it
\* runs.
push_back(c) ==
    /\ ipc[c].pc = "push"
    /\ IF ipc[c].iter = << >>
       THEN /\ ipc' = [ipc EXCEPT ![c].pc = "send",
                                  ![c].iter = CpuSet_iter(ipc[c].targets)]
            /\ UNCHANGED << CALL_QUEUES, pushed >>
       ELSE LET cpu_id == Head(ipc[c].iter)
            IN  IF cpu_id = c
                THEN /\ ipc' = [ipc EXCEPT ![c].call_on_self = TRUE,
                                           ![c].iter = Tail(@)]
                     /\ UNCHANGED << CALL_QUEUES, pushed >>
                ELSE /\ ~in_handler[cpu_id]
                     /\ CALL_QUEUES' =
                            [CALL_QUEUES EXCEPT
                                ![cpu_id] = VecDeque_push_back(@, << ipc[c].f, c >>)]
                     /\ pushed' = [pushed EXCEPT ![cpu_id] = Append(@, << ipc[c].f, c >>)]
                     /\ ipc' = [ipc EXCEPT ![c].iter = Tail(@),
                                           ![c].queued = Append(@, cpu_id)]
    /\ UNCHANGED << heap, ipi_pending, in_handler, ran, returned >>

\* smp.rs 52-60: one pass of the second loop.
send_ipi(c) ==
    /\ ipc[c].pc = "send"
    /\ IF ipc[c].iter = << >>
       THEN /\ ipc' = [ipc EXCEPT ![c].pc = "self"]
            /\ UNCHANGED ipi_pending
       ELSE LET cpu_id == Head(ipc[c].iter)
            IN  IF cpu_id = c
                THEN /\ ipc' = [ipc EXCEPT ![c].iter = Tail(@)]
                     /\ UNCHANGED ipi_pending
                ELSE /\ ipi_pending' = [ipi_pending EXCEPT ![cpu_id] = TRUE]
                     /\ ipc' = [ipc EXCEPT ![c].iter = Tail(@),
                                           ![c].sent = Append(@, cpu_id)]
    /\ UNCHANGED << heap, CALL_QUEUES, in_handler, pushed, ran, returned >>

\* An f called on a CPU with `id` for its argument, from the handler or not.
Ran(f, id, sync) == [f |-> f, id |-> id, sync |-> sync]

\* smp.rs 61-65: f(this_cpu_id) if the caller is a target, and the return.
call_on_self(c) ==
    /\ ipc[c].pc = "self"
    /\ ran' = [ran EXCEPT ![c] = IF ipc[c].call_on_self
                                 THEN Append(@, Ran(ipc[c].f, c, TRUE)) ELSE @]
    /\ returned' = [returned EXCEPT
                       ![c] = Append(@, [targets |-> ipc[c].targets, f |-> ipc[c].f])]
    /\ ipc' = [ipc EXCEPT ![c] = Ipc_idle]
    /\ UNCHANGED << heap, CALL_QUEUES, ipi_pending, in_handler, pushed >>

\* smp.rs 73-77: the IPI is taken on a CPU whose interrupts are enabled; the
\* handler locks the CPU's queue.
do_inter_processor_call(c) ==
    /\ ipi_pending[c]
    /\ ipc[c].pc = "idle"
    /\ ~in_handler[c]
    /\ ipi_pending' = [ipi_pending EXCEPT ![c] = FALSE]
    /\ in_handler' = [in_handler EXCEPT ![c] = TRUE]
    /\ UNCHANGED << heap, CALL_QUEUES, ipc, pushed, ran, returned >>

\* smp.rs 78-86: one pass of `while let Some((f, id)) = queue.pop_front()`,
\* the last one drops the lock and returns.
pop_front(c) ==
    /\ in_handler[c]
    /\ IF CALL_QUEUES[c] = << >>
       THEN /\ in_handler' = [in_handler EXCEPT ![c] = FALSE]
            /\ UNCHANGED << CALL_QUEUES, ran >>
       ELSE LET r == VecDeque_pop_front(CALL_QUEUES[c])
            IN  /\ CALL_QUEUES' = [CALL_QUEUES EXCEPT ![c] = r.queue]
                /\ ran' = [ran EXCEPT ![c] = Append(@, Ran(r.item[1], r.item[2], FALSE))]
                /\ UNCHANGED in_handler
    /\ UNCHANGED << heap, ipi_pending, ipc, pushed, returned >>

MetaReg_new == [layout |-> None, ptr |-> None, pages |-> None]

\* allocate() not running: no position, no locals.
Frame_idle ==
    [pc |-> "idle", idx |-> 0, pages |-> 0, tc_seed |-> None, cfl_seed |-> None,
     meta_seed |-> None, ph_seed |-> None]

\* Base addresses init() may be given: page-aligned, as PRIMARY_HEAP is.
HeapBases == {65537 * K_PAGE_SIZE}

\* Where the external page provider's memory starts, past any primary heap.
ExtBase == 131072 * K_PAGE_SIZE

\* The layouts the callers ask for.
Layouts ==
    { Layout(8, 1), Layout(8, 16), Layout(12288, 8192), Layout(1048576, 4096) }

\* An allocation a caller holds: `op` is the call that made it, 0 if it was
\* made before the window the model explores.
Allocation(ptr, layout, op) == [ptr |-> ptr, layout |-> layout, op |-> op]

\* Requests served before the window the model explores: none, or spans of
\* K_BASE_NUMBER_SPAN pages as long as one fits the primary heap and then one
\* span of the pages that are left but one, so that a single page of the
\* primary heap is free.
SpanLayout(pages) == Layout(pages * K_PAGE_SIZE, K_PAGE_SIZE)

ServedSpans == K_PRIMARY_HEAP_LEN \div K_BASE_NUMBER_SPAN
ServedRest == (K_PRIMARY_HEAP_LEN % K_BASE_NUMBER_SPAN) - 1
ServedPages == ServedSpans * K_BASE_NUMBER_SPAN + ServedRest

Served(base) ==
    {Allocation(base + i * K_BASE_NUMBER_SPAN * K_PAGE_SIZE,
                SpanLayout(K_BASE_NUMBER_SPAN), 0) : i \in 0 .. (ServedSpans - 1)}
    \cup {Allocation(base + ServedSpans * K_BASE_NUMBER_SPAN * K_PAGE_SIZE,
                     SpanLayout(ServedRest), 0)}

\* Tcmalloc::new and Tcmalloc::init(max_len, base); if `used`, then the
\* allocations of Served(base) made and collected on CPU 0, the last one
\* last: each took the lowest free run of the primary heap (page_heap.rs
\* 80-112) and left every tier Ready, the page heap's pages register and the
\* driver's layout register as the last request set them.
Tcmalloc_init(base, used) ==
    /\ cpu_caches = [c \in Cpus |-> CpuCache_init(CpuCache_new)]
    /\ transfer_caches = TransferCaches_init(TransferCaches_new)
    /\ central_free_lists = CentralFreeLists_init(CentralFreeLists_new, K_MAX_PAGE_NUMBER)
    /\ page_heap =
           [PageHeap_init(PageHeap_new, base) EXCEPT
               !.primary_heap =
                   [i \in HeapIdx |->
                       [@[i] EXCEPT !.assigned = used /\ i < ServedPages]],
               !.reg.pages = IF used THEN Some(ServedRest) ELSE None]
    /\ stat = [c \in Cpus |-> "Ready"]
    /\ reg = [c \in Cpus |->
                 IF c = 0 /\ used
                 THEN [MetaReg_new EXCEPT !.layout = Some(SpanLayout(ServedRest))]
                 ELSE MetaReg_new]
    /\ transfer_span = [c \in Cpus |-> None]
    /\ transfer_object = [c \in Cpus |-> None]
    /\ live = IF used THEN Served(base) ELSE {}

Init ==
    /\ \E base \in HeapBases, used \in BOOLEAN : Tcmalloc_init(base, used)
    /\ frame = [c \in Cpus |-> Frame_idle]
    /\ panicked = ""
    /\ ops = 0
    /\ ext_next = ExtBase
    /\ supplied = [c \in Cpus |-> None]
    /\ turns = 0
    /\ sched = << >>
    /\ smp_init

\* A stat_handler call borrows the allocator exclusively (&mut self): no other
\* CPU is inside allocate() while CPU c runs a step.
Exclusive(c) == \A d \in Cpus \ {c} : frame[d].pc = "idle"

Running(c) == panicked = "" /\ Exclusive(c)

\* ------------------------------------------------------------------------
\* Tcmalloc::allocate, the size-class path (mod.rs 170-293), one tier call
\* per step.  Each step yields the tiers, the driver's object mailbox and the
\* locals as the step leaves them, `brk` when the loop is left, and the site
\* of a panic.
\* ------------------------------------------------------------------------
StepResult(cc, tcs, cfls, ph, obj, fr, brk, panic) ==
    [cc |-> cc, tcs |-> tcs, cfls |-> cfls, ph |-> ph, obj |-> obj, fr |-> fr,
     brk |-> brk, panic |-> panic]

\* `if let Some(PageHeapStat::Ready) = _page_heap_seed { continue }`
AfterCentral(fr) ==
    IF IsSome(fr.ph_seed) /\ Unwrap(fr.ph_seed).stat = "Ready" THEN "cpu" ELSE "ph"

AfterMeta(fr) == IF IsSome(fr.cfl_seed) THEN "cfl" ELSE AfterCentral(fr)

AfterTransfer(fr) == IF IsSome(fr.meta_seed) THEN "meta" ELSE AfterMeta(fr)

\* `if let Some(TransferCacheStat::Ready) = _transfer_cache_seed { continue }`
AfterCpu(fr) ==
    IF IsSome(fr.tc_seed) /\ Unwrap(fr.tc_seed).stat = "Ready" THEN "cpu" ELSE "tc"

\* mod.rs 177-194: the per-CPU cache's turn.
allocate_cpu_cache(c, r) ==
    LET fr == frame[c]
        flow == CpuCache_flow(r.t)
        taken == [r.t EXCEPT !.transfer_object = None]
        cc == IF flow = "Forward" THEN taken ELSE r.t
        obj == IF flow = "Forward" THEN r.t.transfer_object ELSE transfer_object[c]
        fr1 == IF flow = "Backward"
               THEN [fr EXCEPT !.tc_seed = Some(Seed("Alloc", None, None))]
               ELSE fr
        panic == IF r.panic THEN "cpu_cache"
                 ELSE IF flow = "Forward" /\ IsNone(r.t.transfer_object)
                 THEN "take_object().unwrap()"
                 ELSE ""
    IN  StepResult(cc, transfer_caches, central_free_lists, page_heap, obj,
                   [fr1 EXCEPT !.pc = AfterCpu(fr1)], flow = "Exit", panic)

\* mod.rs 195-216: the transfer cache's turn.
allocate_transfer_cache(c, r) ==
    LET fr == frame[c]
        flow == TransferCache_flow(r.t)
        put == CpuCache_put_batch(cpu_caches[c], r.t.transfer_batch)
        tc == IF flow = "Forward" THEN [r.t EXCEPT !.transfer_batch = None] ELSE r.t
        cc == IF flow = "Forward" THEN put.t ELSE cpu_caches[c]
        fr1 == CASE flow = "Backward" /\ r.t.stat = "Empty" ->
                      [fr EXCEPT !.cfl_seed = Some(Seed("Alloc", None, None))]
                 [] flow = "Backward" /\ r.t.stat = "Lack" ->
                      [fr EXCEPT !.meta_seed = Some(Seed("Alloc", None, None))]
                 [] flow = "Exit" ->
                      [fr EXCEPT !.tc_seed = Some(Seed("Ready", None, None))]
                 [] OTHER -> fr
        panic == IF r.panic THEN "transfer_cache"
                 ELSE IF flow = "Backward" /\ r.t.stat \notin {"Empty", "Lack"}
                 THEN "transfer_cache backward"
                 ELSE IF flow = "Forward" /\ put.panic
                 THEN "cpu_cache.put_batch(None)"
                 ELSE ""
    IN  StepResult(cc, [transfer_caches EXCEPT ![fr.idx] = tc],
                   central_free_lists, page_heap, transfer_object[c],
                   [fr1 EXCEPT !.pc = AfterTransfer(fr1)], FALSE, panic)

\* mod.rs 218-238: the carrier pool's turn.
allocate_central_free_lists(c, t) ==
    LET fr == frame[c]
        flow == CentralFreeLists_flow(t)
        put == TransferCache_put_list(transfer_caches[fr.idx], t.transfer_list)
        cfls == IF flow = "Forward" THEN [t EXCEPT !.transfer_list = None] ELSE t
        tcs == IF flow = "Forward"
               THEN [transfer_caches EXCEPT ![fr.idx] = put.t]
               ELSE transfer_caches
        fr1 == CASE flow = "Backward" /\ t.stat = "Empty" ->
                      [fr EXCEPT !.ph_seed = Some(Seed("Alloc", Some(1), None))]
                 [] flow = "Backward" -> [fr EXCEPT !.meta_seed = None]
                 [] OTHER -> fr
        panic == IF flow = "Forward" /\ put.panic
                 THEN "transfer_cache.put_list(None)" ELSE ""
    IN  StepResult(cpu_caches[c], tcs, cfls, page_heap, transfer_object[c],
                   [fr1 EXCEPT !.pc = AfterMeta(fr1)], FALSE, panic)

\* mod.rs 240-257: the turn of the central free-list of the class's span size.
allocate_central_free_list(c, t) ==
    LET fr == frame[c]
        pages == get_pages(fr.idx)
        flow == CentralFreeList_flow(t)
        put == TransferCache_put_span(transfer_caches[fr.idx], t.transfer_span)
        cfl == IF flow = "Forward" THEN [t EXCEPT !.transfer_span = None] ELSE t
        tcs == IF flow = "Forward"
               THEN [transfer_caches EXCEPT ![fr.idx] = put.t]
               ELSE transfer_caches
        fr1 == IF flow = "Backward"
               THEN [fr EXCEPT !.ph_seed = Some(Seed("Alloc", Some(pages), None))]
               ELSE fr
        panic == IF flow = "Forward" /\ put.panic
                 THEN "transfer_cache.put_span(None)" ELSE ""
    IN  StepResult(cpu_caches[c], tcs,
                   [central_free_lists EXCEPT !.free_lists[pages - 1] = cfl],
                   page_heap, transfer_object[c],
                   [fr1 EXCEPT !.pc = AfterCentral(fr1)], FALSE, panic)

\* mod.rs 265-282: the page heap's turn.  On Forward the span goes to the
\* carrier pool if it is seeded, else to the central free-list if it is.
allocate_page_heap(c, r) ==
    LET fr == frame[c]
        pages == get_pages(fr.idx)
        flow == PageHeap_flow(r.t)
        to_meta == flow = "Forward" /\ IsSome(fr.meta_seed)
        to_cfl == flow = "Forward" /\ IsNone(fr.meta_seed) /\ IsSome(fr.cfl_seed)
        taken == [r.t EXCEPT !.transfer_span = None]
        put_meta == CentralFreeLists_put_span(central_free_lists, r.t.transfer_span)
        put_cfl == CentralFreeList_put_span(
                       central_free_lists.free_lists[pages - 1], r.t.transfer_span)
        cfls == IF to_meta THEN put_meta.t
                ELSE IF to_cfl
                THEN [central_free_lists EXCEPT !.free_lists[pages - 1] = put_cfl.t]
                ELSE central_free_lists
        panic == IF r.panic THEN "page_heap"
                 ELSE IF to_meta /\ put_meta.panic
                 THEN "central_free_lists.put_span(None)"
                 ELSE IF to_cfl /\ put_cfl.panic
                 THEN "central_free_list.put_span(None)"
                 ELSE ""
    IN  StepResult(cpu_caches[c], transfer_caches, cfls,
                   IF to_meta \/ to_cfl THEN taken ELSE r.t,
                   transfer_object[c], [fr EXCEPT !.pc = "cpu"],
                   flow = "Backward", panic)

\* ------------------------------------------------------------------------
\* Tcmalloc::allocate, a request past the largest class of at most
\* K_BASE_NUMBER_SPAN pages (mod.rs 126-168)
\* ------------------------------------------------------------------------
\* mod.rs 130-149: the central free-list's turn.
allocate_span_central_free_list(c, t) ==
    LET fr == frame[c]
        flow == CentralFreeList_flow(t)
        cfl == IF flow = "Forward" THEN [t EXCEPT !.transfer_span = None] ELSE t
        obj == IF flow = "Forward" /\ IsSome(t.transfer_span)
               THEN Some(Unwrap(t.transfer_span).start)
               ELSE transfer_object[c]
        fr1 == IF flow = "Backward"
               THEN [fr EXCEPT !.ph_seed = Some(Seed("Alloc", None, None)),
                               !.pc = "span_ph"]
               ELSE fr
        panic == IF flow = "Forward" /\ IsNone(t.transfer_span)
                 THEN "take_span().unwrap()" ELSE ""
    IN  StepResult(cpu_caches[c], transfer_caches,
                   [central_free_lists EXCEPT !.free_lists[fr.pages - 1] = cfl],
                   IF flow = "Backward" THEN PageHeap_set_pages(page_heap, fr.pages)
                   ELSE page_heap,
                   obj, fr1, flow = "Forward", panic)

\* mod.rs 150-161: the page heap's turn.
allocate_span_page_heap(c, r) ==
    LET fr == frame[c]
        flow == PageHeap_flow(r.t)
        put == CentralFreeList_put_span(
                   central_free_lists.free_lists[fr.pages - 1], r.t.transfer_span)
        cfls == IF flow = "Forward"
                THEN [central_free_lists EXCEPT !.free_lists[fr.pages - 1] = put.t]
                ELSE central_free_lists
        panic == IF r.panic THEN "page_heap"
                 ELSE IF flow = "Forward" /\ put.panic
                 THEN "central_free_list.put_span(None)"
                 ELSE ""
    IN  StepResult(cpu_caches[c], transfer_caches, cfls,
                   IF flow = "Forward" THEN [r.t EXCEPT !.transfer_span = None]
                   ELSE r.t,
                   transfer_object[c], [fr EXCEPT !.pc = "span_cfl"],
                   flow = "Backward", panic)

\* ------------------------------------------------------------------------
\* Tcmalloc, the driver (tcmalloc/mod.rs)
\* ------------------------------------------------------------------------
\* mod.rs 284-292 and 163-167: the status allocate() leaves once its loop is
\* left.  `small` tells the size-class path from the span path.
allocate_end(c, s, small) ==
    IF IsSome(s.obj) THEN [stat |-> "Finish", pages |-> reg[c].pages, panic |-> ""]
    ELSE IF ~small
    THEN [stat |-> "Insufficient", pages |-> Some(frame[c].pages), panic |-> ""]
    ELSE IF s.ph.stat = "Insufficient"
    THEN [stat |-> "Insufficient", pages |-> s.ph.reg.pages, panic |-> ""]
    ELSE [stat |-> stat[c], pages |-> reg[c].pages,
          panic |-> "page heap not Insufficient"]

\* One tier call of the loop of allocate(), and what follows it up to the
\* next tier call or to the return.
allocate_step(c, s, small) ==
    LET e == allocate_end(c, s, small)
        site == IF s.panic # "" THEN s.panic ELSE IF s.brk THEN e.panic ELSE ""
    IN  IF site # ""
        THEN /\ panicked' = site
             /\ UNCHANGED << tiers, stat, reg, transfer_span, transfer_object,
                             frame, env, smp >>
        ELSE /\ turns' = turns + 1
             /\ cpu_caches' = [cpu_caches EXCEPT ![c] = s.cc]
             /\ transfer_caches' = s.tcs
             /\ central_free_lists' = s.cfls
             /\ page_heap' = s.ph
             /\ transfer_object' = [transfer_object EXCEPT ![c] = s.obj]
             /\ frame' = [frame EXCEPT ![c] = IF s.brk THEN Frame_idle ELSE s.fr]
             /\ stat' = [stat EXCEPT ![c] = IF s.brk THEN e.stat ELSE @]
             /\ reg' = [reg EXCEPT ![c].pages = IF s.brk THEN e.pages ELSE @]
             /\ UNCHANGED << transfer_span, panicked, live, ops, ext_next, sched,
                             supplied, smp >>

AtPc(c, pc) == Running(c) /\ frame[c].pc = pc

\* The turns of the loop: `r` is what the tier's stat_handler hands back for
\* the seed of the turn, `s` the state the turn leaves.
CpuCacheTurn(c) ==
    /\ AtPc(c, "cpu")
    /\ \E r \in {CpuCache_stat_handler(
                      cpu_caches[c],
                      Some(Seed("Alloc", frame[c].idx, Unwrap(reg[c].layout).align)))} :
         \E s \in {allocate_cpu_cache(c, r)} : allocate_step(c, s, TRUE)

TransferCacheTurn(c) ==
    /\ AtPc(c, "tc")
    /\ \E r \in {TransferCache_stat_handler(transfer_caches[frame[c].idx],
                                            frame[c].tc_seed)} :
         \E s \in {allocate_transfer_cache(c, r)} : allocate_step(c, s, TRUE)

CentralFreeListsTurn(c) ==
    /\ AtPc(c, "meta")
    /\ \E t \in {CentralFreeLists_stat_handler(central_free_lists,
                                               frame[c].meta_seed)} :
         \E s \in {allocate_central_free_lists(c, t)} : allocate_step(c, s, TRUE)

CentralFreeListTurn(c) ==
    /\ AtPc(c, "cfl")
    /\ \E t \in {CentralFreeList_stat_handler(
                      central_free_lists.free_lists[get_pages(frame[c].idx) - 1],
                      frame[c].cfl_seed)} :
         \E s \in {allocate_central_free_list(c, t)} : allocate_step(c, s, TRUE)

PageHeapTurn(c) ==
    /\ AtPc(c, "ph")
    /\ \E r \in {PageHeap_stat_handler(page_heap, frame[c].ph_seed)} :
         \E s \in {allocate_page_heap(c, r)} : allocate_step(c, s, TRUE)

SpanCentralFreeListTurn(c) ==
    /\ AtPc(c, "span_cfl")
    /\ \E t \in {CentralFreeList_stat_handler(
                      central_free_lists.free_lists[frame[c].pages - 1],
                      frame[c].cfl_seed)} :
         \E s \in {allocate_span_central_free_list(c, t)} :
            allocate_step(c, s, FALSE)

SpanPageHeapTurn(c) ==
    /\ AtPc(c, "span_ph")
    /\ \E r \in {PageHeap_stat_handler(page_heap, frame[c].ph_seed)} :
         \E s \in {allocate_span_page_heap(c, r)} : allocate_step(c, s, FALSE)

\* size -> pages, rounding up (mod.rs 122).
PagesOf(size) == (size + K_PAGE_SIZE - 1) \div K_PAGE_SIZE

\* mod.rs 117-128 and 170-175: allocate() up to its first tier call.
allocate_enter(c) ==
    LET layout == Unwrap(reg[c].layout)
        idx == match_size_class(layout)
        pages == PagesOf(layout.size)
    IN  IF IsNone(reg[c].layout)
        THEN /\ panicked' = "reg.layout.unwrap()"
             /\ UNCHANGED << stat, reg, frame >>
        ELSE IF IsSome(idx)
        THEN /\ frame' = [frame EXCEPT ![c] =
                              [Frame_idle EXCEPT !.pc = "cpu", !.idx = Unwrap(idx)]]
             /\ UNCHANGED << stat, reg, panicked >>
        ELSE IF pages > K_BASE_NUMBER_SPAN
        THEN /\ stat' = [stat EXCEPT ![c] = "LargeSize"]
             /\ reg' = [reg EXCEPT ![c].pages = Some(pages)]
             /\ UNCHANGED << frame, panicked >>
        ELSE /\ frame' = [frame EXCEPT ![c] =
                              [Frame_idle EXCEPT
                                   !.pc = "span_cfl", !.pages = pages,
                                   !.cfl_seed = Some(Seed("Alloc", None, None))]]
             /\ UNCHANGED << stat, reg, panicked >>

\* mod.rs 297-304
alloc_large_object(c) ==
    IF IsNone(transfer_span[c])
    THEN UNCHANGED << stat, transfer_span, transfer_object >>
    ELSE /\ transfer_object' =
                [transfer_object EXCEPT ![c] = Some(Unwrap(transfer_span[c]).start)]
         /\ transfer_span' = [transfer_span EXCEPT ![c] = None]
         /\ stat' = [stat EXCEPT ![c] = "Finish"]

\* mod.rs 307: the body is empty, the status stays Dealloc.
deallocate(c) == UNCHANGED << stat, reg, transfer_span, transfer_object, tiers >>

\* mod.rs 309-313
scavenged(c) ==
    /\ stat' = [stat EXCEPT ![c] = IF IsNone(transfer_span[c]) THEN "Ready" ELSE @]

\* mod.rs 315-322
refill_pages(c) ==
    IF IsNone(transfer_span[c])
    THEN UNCHANGED << stat, transfer_span, page_heap >>
    ELSE /\ page_heap' = PageHeap_put_span(page_heap, transfer_span[c]).t
         /\ transfer_span' = [transfer_span EXCEPT ![c] = None]
         /\ stat' = [stat EXCEPT ![c] = "Alloc"]

\* mod.rs 324-328
taken(c) ==
    /\ stat' = [stat EXCEPT ![c] = IF IsNone(transfer_object[c]) THEN "Ready" ELSE @]

\* mod.rs 100-107: what stat_handler returns for a status.
Tcmalloc_flow(st) ==
    CASE st = "Finish" -> "Forward"
      [] st \in {"Alloc", "Dealloc"} -> "Circle"
      [] st \in {"Insufficient", "LargeSize", "Uncovered"} -> "Backward"
      [] st = "Ready" -> "Exit"

\* mod.rs 110-114 under the Ready arm of stat_handler: the request becomes the
\* status, its payload the registers.
seed(c, st) ==
    /\ stat[c] = "Ready"
    /\ stat' = [stat EXCEPT ![c] = st.stat]
    /\ reg' = [reg EXCEPT ![c] =
                   IF st.stat = "Alloc" THEN [@ EXCEPT !.layout = Some(st.a)]
                   ELSE [@ EXCEPT !.ptr = Some(st.a), !.layout = Some(st.b)]]

\* mod.rs 76-99: a stat_handler call in a status other than Ready, up to the
\* first tier call if the status is Alloc.
stat_handler(c) ==
    /\ AtPc(c, "idle")
    /\ stat[c] # "Ready"
    /\ CASE stat[c] = "Alloc" ->
              /\ allocate_enter(c)
              /\ UNCHANGED << tiers, transfer_span, transfer_object >>
         [] stat[c] = "Dealloc" ->
              /\ deallocate(c)
              /\ UNCHANGED << frame, panicked >>
         [] stat[c] = "Finish" ->
              /\ taken(c)
              /\ UNCHANGED << tiers, reg, transfer_span, transfer_object, frame,
                              panicked >>
         [] stat[c] = "Insufficient" ->
              /\ refill_pages(c)
              /\ UNCHANGED << cpu_caches, transfer_caches, central_free_lists, reg,
                              transfer_object, frame, panicked >>
         [] stat[c] = "LargeSize" ->
              /\ alloc_large_object(c)
              /\ UNCHANGED << tiers, reg, frame, panicked >>
         [] stat[c] = "Uncovered" ->
              /\ scavenged(c)
              /\ UNCHANGED << tiers, reg, transfer_span, transfer_object, frame,
                              panicked >>
    /\ sched' = IF stat[c] = "Finish" /\ IsNone(transfer_object[c])
                THEN Tail(sched) ELSE sched
    /\ UNCHANGED << live, ops, ext_next, turns, supplied, smp >>

\* ------------------------------------------------------------------------
\* The callers (heap_allocator/mod.rs): GlobalAlloc::alloc and ::dealloc
\* hand a request to the driver slot of the CPU they run on, feed it pages of the
\* page allocator when it asks for them, and collect the object.
\* ------------------------------------------------------------------------
\* GlobalAlloc::alloc hands `layout` to the driver of CPU c.
alloc(c, layout) ==
    /\ AtPc(c, "idle")
    /\ ops < MaxOps
    /\ seed(c, Seed("Alloc", layout, None))
    /\ ops' = ops + 1
    /\ sched' = << c >> \o sched
    /\ supplied' = [supplied EXCEPT ![c] = None]
    /\ UNCHANGED << tiers, transfer_span, transfer_object, frame, panicked, live,
                    ext_next, turns, smp >>

\* GlobalAlloc::dealloc hands an allocation of the window back to the driver
\* of CPU c; those made before it stay with their holders.
dealloc(c, a) ==
    /\ AtPc(c, "idle")
    /\ ops < MaxOps
    /\ a \in live
    /\ a.op > 0
    /\ seed(c, Seed("Dealloc", a.ptr, a.layout))
    /\ live' = live \ {a}
    /\ ops' = ops + 1
    /\ sched' = << c >> \o sched
    /\ supplied' = [supplied EXCEPT ![c] = None]
    /\ UNCHANGED << tiers, transfer_span, transfer_object, frame, panicked,
                    ext_next, turns, smp >>

\* mod.rs 64-66 of the driver: the caller collects the object of a finished
\* request.
take_object(c) ==
    /\ AtPc(c, "idle")
    /\ stat[c] = "Finish"
    /\ IsSome(transfer_object[c])
    /\ live' = live \cup {Allocation(Unwrap(transfer_object[c]),
                                   Unwrap(reg[c].layout), ops)}
    /\ transfer_object' = [transfer_object EXCEPT ![c] = None]
    /\ UNCHANGED << tiers, stat, reg, transfer_span, frame, panicked, ops, ext_next,
                    turns, sched, supplied, smp >>

\* heap_allocator/mod.rs 59-93 and mod.rs 68-70 of the driver: the caller
\* answers a request for pages with a page-aligned run of the page allocator.
put_span(c) ==
    /\ AtPc(c, "idle")
    /\ stat[c] \in {"Insufficient", "LargeSize"}
    /\ IsNone(transfer_span[c])
    /\ IsSome(reg[c].pages)
    /\ transfer_span' =
           [transfer_span EXCEPT ![c] = Some(Span(Unwrap(reg[c].pages), ext_next))]
    /\ ext_next' = ext_next + Unwrap(reg[c].pages) * K_PAGE_SIZE
    /\ supplied' = [supplied EXCEPT ![c] = Some(Span(Unwrap(reg[c].pages), ext_next))]
    /\ UNCHANGED << tiers, stat, reg, transfer_object, frame, panicked, live, ops,
                    turns, sched, smp >>

\* The next tier call of the loop allocate() is in, of at most `bound` calls.
allocate_upto(c, bound) ==
    /\ turns < bound
    /\ CASE frame[c].pc = "cpu" -> CpuCacheTurn(c)
         [] frame[c].pc = "tc" -> TransferCacheTurn(c)
         [] frame[c].pc = "meta" -> CentralFreeListsTurn(c)
         [] frame[c].pc = "cfl" -> CentralFreeListTurn(c)
         [] frame[c].pc = "ph" -> PageHeapTurn(c)
         [] frame[c].pc = "span_cfl" -> SpanCentralFreeListTurn(c)
         [] frame[c].pc = "span_ph" -> SpanPageHeapTurn(c)
         [] OTHER -> FALSE

allocate_turn(c) == allocate_upto(c, MaxTurns)

Step(c) ==
    \/ \E layout \in Layouts : alloc(c, layout)
    \/ \E a \in live : dealloc(c, a)
    \/ stat_handler(c)
    \/ allocate_turn(c)
    \/ take_object(c)
    \/ put_span(c)

\* heap_allocator/mod.rs 46-48: get_current_cpu() is a stub that names CPU 0
\* on every CPU, so the kernel as it is wired drives slot 0 alone.
get_current_cpu == 0

Next == Step(get_current_cpu)

Spec == Init /\ [][Next]_vars

\* The allocator driven as its interface is written, a slot per CPU.  A CPU
\* may start a request at any time; of the requests in progress the latest
\* runs and the others wait for it.
Scheduled(c) == stat[c] = "Ready" \/ (sched # << >> /\ Head(sched) = c)

NextSMP == \E c \in Cpus : Scheduled(c) /\ Step(c)

SpecSMP == Init /\ [][NextSMP]_vars

\* ------------------------------------------------------------------------
\* The allocator's contract
\* ------------------------------------------------------------------------
\* C1: every pointer a successful alloc(layout) returns is a multiple of
\* layout.align, whether it is in the driver's mailbox or with its caller.
C1_ReturnedAligned ==
    /\ \A a \in live : a.ptr % a.layout.align = 0
    /\ \A c \in Cpus :
          (stat[c] = "Finish" /\ IsSome(transfer_object[c])) =>
              Unwrap(transfer_object[c]) % Unwrap(reg[c].layout).align = 0

Range(s) == {s[i] : i \in 1 .. Len(s)}

\* No two objects of `objs`, each of `size` bytes, share a byte.
Apart(objs, size) ==
    \A x \in objs : \A y \in objs : x # y => (x + size <= y \/ y + size <= x)

\* C2: the byte ranges of two live allocations are disjoint, and so are the
\* objects carved from one span.
C2_Disjoint ==
    /\ \A a \in live : \A b \in live :
          a # b => (a.ptr + a.layout.size <= b.ptr \/ b.ptr + b.layout.size <= a.ptr)
    /\ \A k \in ClassIdx : \A i \in 1 .. Len(transfer_caches[k].free_lists) :
          Apart(Range(transfer_caches[k].free_lists[i].list),
                get_size(transfer_caches[k].size_class_idx))

\* C3: no object that left a free list is dropped: an object leaves the
\* driver's mailbox only for the caller.
C3_NoObjectDropped ==
    [][\A c \in Cpus :
          (IsSome(transfer_object[c]) /\ transfer_object'[c] # transfer_object[c]) =>
              \E a \in live' : a.ptr = Unwrap(transfer_object[c])]_vars

\* C4: every alloc terminates in Finish, Insufficient or LargeSize: as long
\* as the driver is in Alloc it has a step to take.
C4_AllocProceeds ==
    \A c \in Cpus : stat[c] = "Alloc" => ENABLED Step(c)

\* C5: every dealloc runs to completion: advancing the dispatcher in Dealloc
\* changes the state, so that the driver can leave Dealloc.
C5_DeallocProceeds ==
    \A c \in Cpus : stat[c] = "Dealloc" => ENABLED << stat_handler(c) >>_vars

\* Every alloc of the window has been matched by a dealloc and no request
\* is in progress.
Matched ==
    /\ ops > 0
    /\ panicked = ""
    /\ \A a \in live : a.op = 0
    /\ \A c \in Cpus :
          /\ stat[c] \in {"Ready", "Dealloc"}
          /\ frame[c].pc = "idle"
          /\ IsNone(transfer_object[c])

\* C6: after alloc/dealloc pairs with matched (ptr, layout) the allocator is
\* as before: the per-CPU caches and the central free lists hold what they
\* held and the page heap has the cells assigned that it had.
C6_RoundTripNeutral ==
    Matched =>
        /\ \A c \in Cpus : cpu_caches[c].size = 0
        /\ \A i \in SpanIdx : central_free_lists.free_lists[i].free_list.len = 0
        /\ \A i \in HeapIdx :
              page_heap.primary_heap[i].assigned = (live # {} /\ i < ServedPages)

\* C7: a request is in the size-class loop only if size <= 8192 and
\* align <= size, and the class it is served from is at least as large as
\* its size and its align.
C7_ClassLoopOnlyWhenFits ==
    \A c \in Cpus :
        frame[c].pc \in {"cpu", "tc", "meta", "cfl", "ph"} =>
            LET layout == Unwrap(reg[c].layout)
            IN  /\ layout.size <= 8192
                /\ layout.align <= layout.size
                /\ get_size(frame[c].idx) >= layout.size
                /\ get_size(frame[c].idx) >= layout.align

\* ------------------------------------------------------------------------
\* Classification alone: requests of every size up to MaxRequest are handed
\* to the driver of CPU 0, which takes each as far as the choice of its path
\* (mod.rs 117-128 and 170-175).
\* ------------------------------------------------------------------------
Requests == {Layout(size, align) : size \in 1 .. MaxRequest, align \in {1, 16}}

NextClassify ==
    \/ /\ stat[get_current_cpu] = "Ready"
       /\ \E layout \in Requests : alloc(get_current_cpu, layout)
    \/ stat_handler(get_current_cpu)

SpecClassify == Init /\ [][NextClassify]_vars

\* C8: match_size_class gives a request of at most 8192 bytes the smallest
\* index k of the table with SIZE_CLASSES[k].size >= size, and None to a
\* larger one: a request the driver sends down the size-class loop is of at
\* most 8192 bytes and carries that smallest index, and a request it sends
\* to the span path or back to the caller is of more than 8192 bytes.
C8_MatchSmallestClass ==
    \A c \in Cpus :
        IsSome(reg[c].layout) =>
            LET size == Unwrap(reg[c].layout).size
                r == match_size_class(Unwrap(reg[c].layout))
            IN  /\ IF size <= 8192
                   THEN /\ IsSome(r)
                        /\ get_size(Unwrap(r)) >= size
                        /\ \A j \in ClassIdx : get_size(j) >= size => Unwrap(r) <= j
                   ELSE IsNone(r)
                /\ frame[c].pc = "cpu" =>
                       /\ size <= 8192
                       /\ get_size(frame[c].idx) >= size
                       /\ \A j \in ClassIdx : get_size(j) >= size => frame[c].idx <= j
                /\ (frame[c].pc = "span_cfl" \/ stat[c] = "LargeSize") => size > 8192

\* A request of 4097 bytes stands at the head of the loop with class 39
\* (4736 bytes), and class 38 (4096 bytes) is too small for it.
C8_Witness ==
    /\ frame[0].pc = "cpu"
    /\ frame[0].idx = 39
    /\ Unwrap(reg[0].layout).size = 4097

\* C9: a large allocation is handed to the external caller only when the
\* primary heap has no run of `pages` consecutive unassigned cells.
C9_LargeFromPrimaryHeap ==
    \A c \in Cpus :
        stat[c] = "LargeSize" =>
            PageHeap_scan(page_heap.primary_heap, Unwrap(reg[c].pages)) = {}

\* The pages the loops of allocate() ask the page heap for on behalf of the
\* request of CPU c (mod.rs 122 and 240; a list of the meta tier takes 1).
RequestedPages(c) ==
    LET layout == Unwrap(reg[c].layout)
        idx == match_size_class(layout)
    IN  IF IsSome(idx) THEN {1, get_pages(Unwrap(idx))} ELSE {PagesOf(layout.size)}

\* C10: a loop of allocate() that ends without an object leaves the page heap
\* and the driver in Insufficient, the driver with the pages that were asked
\* of the page heap, and raises no panic.
C10_OnlyInsufficientSurfaces ==
    /\ panicked = ""
    /\ \A c \in Cpus :
          stat[c] = "Insufficient" =>
              /\ page_heap.stat = "Insufficient"
              /\ IsSome(reg[c].pages)
              /\ Unwrap(reg[c].pages) \in RequestedPages(c)

\* `ptr` lies in the pages of `span`.
InSpan(ptr, span) ==
    span.start <= ptr /\ ptr < span.start + span.len * K_PAGE_SIZE

\* C11: a driver in Insufficient that is fed a span installs it in the page
\* heap and re-enters Alloc with the same layout; the retried allocation marks
\* no cell of the primary heap, does not run short of pages again, and
\* finishes with an object of the span it was fed.
C11_ResumedFromSuppliedSpan ==
    [][\A c \in Cpus :
          /\ (stat[c] = "Insufficient" /\ IsSome(transfer_span[c])
                 /\ stat'[c] # "Insufficient") =>
                /\ stat'[c] = "Alloc"
                /\ reg'[c].layout = reg[c].layout
                /\ page_heap'.transfer_span = transfer_span[c]
          /\ (IsSome(supplied[c]) /\ frame[c].pc # "idle") =>
                page_heap'.primary_heap = page_heap.primary_heap
          /\ (IsSome(supplied[c]) /\ stat[c] = "Alloc") => stat'[c] # "Insufficient"
          /\ (stat'[c] = "Finish" /\ IsSome(transfer_object'[c])
                 /\ IsSome(supplied'[c])) =>
                InSpan(Unwrap(transfer_object'[c]), Unwrap(supplied'[c]))]_vars



\* C12: under every interleaving of two CPUs' requests a per-CPU cache is
\* touched by its own CPU alone, and a span placed in the page heap's mailbox
\* for one CPU's request is left there by the steps of another CPU's request.
C12_SharedMailboxesPrivate ==
    [][\A c \in Cpus : \A d \in Cpus \ {c} :
          (sched # << >> /\ Head(sched) = d) =>
             /\ cpu_caches'[c] = cpu_caches[c]
             /\ (stat[c] = "Alloc" /\ IsSome(supplied[c])
                    /\ page_heap.transfer_span = supplied[c]) =>
                   page_heap'.transfer_span = page_heap.transfer_span]_vars

\* C16: as initialisation leaves the allocator, every tier is configured with
\* its own index: transfer cache k works with size class k, central free-list
\* i holds spans of i + 1 pages under a cap of max_pages / (i + 1), per-CPU
\* list k has capacity get_capacity(k) and K_MAX_OVERRANGES overranges, and
\* page-heap cell i is unassigned at base + i * K_PAGE_SIZE.
C16_TiersKnowTheirIndex ==
    (ops = 0 /\ live = {}) =>
        /\ \A k \in ClassIdx : transfer_caches[k].size_class_idx = k
        /\ \A i \in SpanIdx :
              /\ central_free_lists.free_lists[i].span_idx = i
              /\ central_free_lists.free_lists[i].free_list.max_len =
                     K_MAX_PAGE_NUMBER \div (i + 1)
        /\ \A c \in Cpus : \A k \in ClassIdx :
              /\ cpu_caches[c].free_lists[k].max_len = get_capacity(k)
              /\ cpu_caches[c].free_lists[k].max_overrange = K_MAX_OVERRANGES
        /\ \E base \in HeapBases : \A i \in HeapIdx :
              page_heap.primary_heap[i] =
                  [assigned |-> FALSE, page_addr |-> base + i * K_PAGE_SIZE]

\* ------------------------------------------------------------------------
\* Worked requests on the kernel as it is wired
\* ------------------------------------------------------------------------
ExampleLayouts == { Layout(12288, 8), Layout(4096, 4096), Layout(8, 8) }

NextExample ==
    \/ \E layout \in ExampleLayouts : alloc(get_current_cpu, layout)
    \/ stat_handler(get_current_cpu)
    \/ allocate_turn(get_current_cpu)
    \/ take_object(get_current_cpu)
    \/ put_span(get_current_cpu)

SpecExample == Init /\ [][NextExample]_vars

\* Every allocation the callers hold was made on a fresh allocator, by
\* requests of `layout` one after the other.
OnlyRequested(layout) ==
    /\ \A a \in live : a.op > 0 /\ a.layout = layout
    /\ Cardinality(live) >= ops - 1
    /\ ops > 0 => reg[get_current_cpu].layout = Some(layout)

\* C14: on a fresh allocator alloc(Layout(12288, 8)) returns the address of
\* page-heap cell 0, and the alloc(Layout(4096, 4096)) that follows it returns
\* the address of cell 3.
C14_RunsInHeapOrder ==
    LET first == {a \in live : a.op = 1 /\ a.layout = Layout(12288, 8)}
        cell(i) == page_heap.primary_heap[i].page_addr
    IN  (\A a \in live : a.op > 0) =>
           /\ \A a \in first : a.ptr = cell(0)
           /\ (first # {} /\ ops = 2
                  /\ reg[get_current_cpu].layout = Some(Layout(4096, 4096))) =>
                 /\ panicked = ""
                 /\ IsSome(transfer_object[get_current_cpu]) =>
                       Unwrap(transfer_object[get_current_cpu]) = cell(3)
                 /\ \A a \in live : a.op = 2 => a.ptr = cell(3)

\* C15: on a fresh allocator the first alloc(Layout(8, 8)) returns an
\* 8-aligned pointer, and the requests of the same layout after it are served
\* by the per-CPU cache alone, each 8 bytes above the one before.
C15_FirstBatchServesInOrder ==
    OnlyRequested(Layout(8, 8)) =>
        /\ panicked = ""
        /\ \A a \in live : a.ptr % 8 = 0
        /\ \A a, b \in live : b.op = a.op + 1 => b.ptr = a.ptr + 8
        /\ ops >= 2 => frame[get_current_cpu].pc \in {"idle", "cpu"}

\* The size of the class match_size_class chooses for `size` bytes.
ClassSizeOf(size) ==
    LET r == match_size_class(Layout(size, 1))
    IN  IF IsSome(r) THEN get_size(Unwrap(r)) ELSE 0

\* Every size of the table and the size that follows it: the sizes at which
\* the scan can change its answer.
TableSizes ==
    {1} \cup {get_size(k) : k \in ClassIdx} \cup {get_size(k) + 1 : k \in ClassIdx}

TableClassSize == [size \in TableSizes |-> ClassSizeOf(size)]

\* s1 <= s2, for the sizes s1 that are compared with s2: the size just below
\* it and the sizes of TableSizes.  With each size compared with the one
\* below it, the order of every pair of sizes follows.
NoLargerClass(s2, class_size) ==
    /\ s2 > 1 => ClassSizeOf(s2 - 1) <= class_size
    /\ \A s1 \in TableSizes : s1 <= s2 => TableClassSize[s1] <= class_size

\* C17: the size-class lookup is monotone: whatever request of s2 <= 8192
\* bytes a driver has classified, no request of s1 <= s2 bytes is given a
\* class of a larger size than the class of s2.
C17_LookupMonotone ==
    \A c \in Cpus :
        (IsSome(reg[c].layout) /\ Unwrap(reg[c].layout).size <= 8192
            /\ frame[c].pc # "idle") =>
            /\ frame[c].pc = "cpu"
            /\ Some(frame[c].idx) = match_size_class(Unwrap(reg[c].layout))
            /\ NoLargerClass(Unwrap(reg[c].layout).size, get_size(frame[c].idx))

\* A request of 8192 bytes stands at the head of the loop with the last
\* class, and smaller sizes belong to that class and to classes below it.
C17_Witness ==
    /\ frame[0].pc = "cpu"
    /\ frame[0].idx = 43
    /\ reg[0].layout = Some(Layout(8192, 16))
    /\ ClassSizeOf(8191) = 8192
    /\ ClassSizeOf(7168) = 7168
    /\ ClassSizeOf(1) = 8

\* The per-CPU cache of CPU c is about to look for an object of the class and
\* alignment of the request in progress, and its list holds one.
CacheHit(c) ==
    /\ frame[c].pc = "cpu"
    /\ sched # << >> /\ Head(sched) = c
    /\ cpu_caches[c].stat = "Alloc"
    /\ IsSome(reg[c].layout)
    /\ first_aligned(cpu_caches[c].free_lists[frame[c].idx].list,
                     Unwrap(reg[c].layout).align) # 0

\* What the tier call of a cache hit does to the tiers: the first aligned
\* object of the list goes to the driver's mailbox, the list is one shorter,
\* the cache is one object size lighter, and the shared tiers are as before.
HitEffect(c) ==
    LET cc == cpu_caches[c]
        idx == frame[c].idx
        e == cc.free_lists[idx]
        i == first_aligned(e.list, Unwrap(reg[c].layout).align)
    IN  /\ transfer_object'[c] = Some(e.list[i])
        /\ cpu_caches'[c].free_lists[idx].len = e.len - 1
        /\ cpu_caches'[c].size = cc.size - get_size(idx)
        /\ UNCHANGED << transfer_caches, central_free_lists, page_heap >>

\* C19: when the per-CPU list of the requested class holds an object that
\* satisfies the alignment, alloc returns the first such object of the list,
\* the list loses one object and the cache that object's size, and the
\* transfer caches, the central free-lists and the page heap stay as they are.
C19_CacheHitFastPath ==
    [][\A c \in Cpus :
          (CacheHit(c) /\ turns' = turns + 1) =>
              /\ HitEffect(c)
              /\ frame'[c].pc = "idle"
              /\ stat'[c] = "Finish"]_vars

\* CPU c takes the next tier call of its loop and the kernel survives it.
TierCall(c, pc) ==
    /\ sched # << >> /\ Head(sched) = c
    /\ frame[c].pc = pc
    /\ turns' = turns + 1
    /\ panicked' = ""

\* The tier call of CPU c is the one in which the page heap finishes an
\* allocation and hands its span on.
SpanProduced(c) ==
    /\ TierCall(c, "ph")
    /\ page_heap.stat = "Alloc"
    /\ page_heap'.stat = "Ready"

\* C20: a transfer cache that goes Backward with Empty has the central
\* free-list of its class seeded, one that goes Backward with Lack the carrier
\* pool; a span the page heap produces is installed in the carrier pool if it
\* is the 1-page carrier span and in the central free-list if it is the span
\* of the class; and when the page heap has gone Forward its seed is reset, so
\* that the request does not make the page heap allocate again.
C20_RefillRouting ==
    [][\A c \in Cpus :
          LET idx == frame[c].idx
              i == get_pages(idx) - 1
              meta == central_free_lists
              cfl == central_free_lists.free_lists[i]
          IN  /\ (TierCall(c, "tc") /\ transfer_caches'[idx].stat = "Empty") =>
                     IsSome(frame'[c].cfl_seed)
              /\ (TierCall(c, "tc") /\ transfer_caches'[idx].stat = "Lack") =>
                     /\ IsSome(frame'[c].meta_seed)
                     /\ frame'[c].pc = "meta"
              /\ SpanProduced(c) =>
                     /\ IsNone(page_heap'.transfer_span)
                     /\ \/ /\ IsSome(meta'.transfer_span)
                           /\ Unwrap(meta'.transfer_span).len = 1
                           /\ meta'.free_lists[i].transfer_span = cfl.transfer_span
                        \/ /\ IsSome(meta'.free_lists[i].transfer_span)
                           /\ Unwrap(meta'.free_lists[i].transfer_span).len = i + 1
                           /\ meta'.transfer_span = meta.transfer_span
                     /\ IsNone(frame'[c].ph_seed)]_vars

\* ------------------------------------------------------------------------
\* One CPU at work while the other waits for pages
\* ------------------------------------------------------------------------
\* CPU 0 asks for three pages of a primary heap that has one page left and
\* waits, its request open, for its caller to bring them; meanwhile CPU 1
\* allocates and frees small objects.
Waiting == stat[0] = "Insufficient"

NextChain ==
    \/ /\ ops = 0
       /\ page_heap.primary_heap[0].assigned
       /\ alloc(0, Layout(12288, 8192))
    \/ stat[0] = "Alloc" /\ stat_handler(0)
    \/ stat[0] = "Alloc" /\ allocate_turn(0)
    \/ Waiting /\ alloc(1, Layout(8, 16))
    \/ Waiting /\ \E a \in live : dealloc(1, a)
    \/ Waiting /\ stat_handler(1)
    \/ Waiting /\ allocate_upto(1, MaxChainTurns)
    \/ Waiting /\ take_object(1)
    \/ Waiting /\ put_span(1)

SpecChain == Init /\ [][NextChain]_vars

\* The objects on the lists of a per-CPU cache.
Cached(cc) ==
    UNION {{cc.free_lists[k].list[i] : i \in 1 .. Len(cc.free_lists[k].list)} :
              k \in ClassIdx}

\* C13: an object of a size class that a CPU frees travels on without loss:
\* the driver can take the free request on, and the object is then on that
\* CPU's list or has changed a transfer cache, so that an allocation on
\* another CPU can receive it.
C13_FreedObjectsTravel ==
    \A c \in Cpus :
        (stat[c] = "Dealloc" /\ IsSome(reg[c].ptr) /\ IsSome(reg[c].layout)
            /\ IsSome(match_size_class(Unwrap(reg[c].layout)))) =>
            ENABLED (/\ stat_handler(c)
                     /\ \/ Unwrap(reg[c].ptr) \in Cached(cpu_caches'[c])
                        \/ transfer_caches' # transfer_caches)

\* ------------------------------------------------------------------------
\* Inter-processor calls between the CPUs
\* ------------------------------------------------------------------------
NextIPC ==
    \E c \in Cpus :
        \/ \E targets \in SUBSET Cpus, f \in Fns : inter_processor_call(c, targets, f)
        \/ push_back(c)
        \/ send_ipi(c)
        \/ call_on_self(c)
        \/ do_inter_processor_call(c)
        \/ pop_front(c)

SpecIPC == Init /\ [][NextIPC]_vars

\* The pairs the handler of CPU t has taken off its queue and called, in order.
Handled(t) ==
    LET calls == SelectSeq(ran[t], LAMBDA r : ~r.sync)
    IN  [i \in 1 .. Len(calls) |-> << calls[i].f, calls[i].id >>]

\* The functions CPU c has called on itself from inter_processor_call, in order.
Synchronous(c) ==
    LET calls == SelectSeq(ran[c], LAMBDA r : r.sync)
    IN  [i \in 1 .. Len(calls) |-> calls[i].f]

\* The functions of the calls CPU c has returned from and was a target of.
SelfTargeted(c) ==
    LET calls == SelectSeq(returned[c], LAMBDA r : c \in r.targets)
    IN  [i \in 1 .. Len(calls) |-> calls[i].f]

NoRepeat(seq) == \A i, j \in 1 .. Len(seq) : seq[i] = seq[j] => i = j
Elems(seq) == {seq[i] : i \in 1 .. Len(seq)}

\* C18: inter_processor_call(targets, f) appends (f, caller) to the queue of
\* every target but the caller exactly once, and before it sends that
\* target's IPI; the handler calls what was queued on its CPU once each, in
\* the order of queuing, with the queuing CPU's id, and a pair that waits in a
\* queue has an IPI or a handler run to find it; and the caller calls f on
\* itself, unqueued, before it returns if and only if it is a target.
C18_QueuedOnceRunInOrder ==
    /\ \A t \in Cpus :
          /\ pushed[t] = Handled(t) \o CALL_QUEUES[t]
          /\ \A i \in 1 .. Len(pushed[t]) : pushed[t][i][2] # t
          /\ \A i \in 1 .. Len(ran[t]) : ran[t][i].sync => ran[t][i].id = t
          /\ Synchronous(t) = SelfTargeted(t)
          /\ ipi_pending[t] => pushed[t] # << >>
          /\ CALL_QUEUES[t] # << >> =>
                \/ ipi_pending[t]
                \/ in_handler[t]
                \/ \E c \in Cpus : /\ ipc[c].pc \in {"push", "send"}
                                    /\ t \in Elems(ipc[c].queued) \ Elems(ipc[c].sent)
    /\ \A c \in Cpus :
          /\ NoRepeat(ipc[c].queued)
          /\ Elems(ipc[c].queued) \subseteq ipc[c].targets \ {c}
          /\ ipc[c].pc \in {"send", "self"} =>
                Elems(ipc[c].queued) = ipc[c].targets \ {c}
          /\ NoRepeat(ipc[c].sent)
          /\ Elems(ipc[c].sent) \subseteq Elems(ipc[c].queued)
          /\ ipc[c].pc = "self" => Elems(ipc[c].sent) = ipc[c].targets \ {c}
          /\ \A i \in 1 .. Len(ipc[c].queued) :
                \E j \in 1 .. Len(pushed[ipc[c].queued[i]]) :
                    pushed[ipc[c].queued[i]][j] = << ipc[c].f, c >>

\* CPU 1's handler has called f and then g for CPU 0, the order CPU 0 queued
\* them in, and CPU 0 has called a function on itself.
C18_Witness ==
    /\ Handled(1) = << << "f", 0 >>, << "g", 0 >> >>
    /\ pushed[1] = Handled(1)
    /\ Synchronous(0) # << >>


\* ------------------------------------------------------------------------
\* C21: Forward means the mailbox is full
\* ------------------------------------------------------------------------
\* The panics of the driver's Forward arms: each is the unwrap of a mailbox
\* that the tier which just returned Forward left empty.
EmptyOnForward ==
    {"take_object().unwrap()", "cpu_cache.put_batch(None)",
     "transfer_cache.put_list(None)", "transfer_cache.put_span(None)",
     "central_free_lists.put_span(None)", "central_free_list.put_span(None)",
     "take_span().unwrap()"}

\* C21: whenever a tier's stat_handler returns Forward its outbound mailbox
\* holds a result, so no take_*().unwrap() and no put_*(take_*()) of a Forward
\* arm ever meets an empty mailbox; and a driver that has just become Finish
\* (its stat_handler returns Forward) holds the object.
C21_ForwardCarriesResult ==
    [][/\ panicked' \notin EmptyOnForward
       /\ \A c \in Cpus :
              (stat[c] # "Finish" /\ stat'[c] = "Finish") =>
                  IsSome(transfer_object'[c])]_vars


\* ------------------------------------------------------------------------
\* The page heap on its own (page_heap.rs): requests for runs of pages and
\* returns of spans arrive in its registers, stat_handler serves them, and
\* the caller empties or fills the mailbox as the status asks.
\* ------------------------------------------------------------------------
\* The page counts asked of the page heap, and the spans handed back to it:
\* spans start at a page-aligned address; they lie in the primary heap, reach
\* past its last cell, or lie outside it.
AllocPages == {1, 2, 3, K_PRIMARY_HEAP_LEN}

DeallocSpans ==
    LET base == page_heap.primary_heap[0].page_addr
    IN  {Span(pages, base + i * K_PAGE_SIZE) :
            pages \in {1, 2}, i \in {0, 2, K_PRIMARY_HEAP_LEN - 1, K_PRIMARY_HEAP_LEN}}
        \cup {Span(2, base - K_PAGE_SIZE), Span(1, ExtBase)}

PageHeap_only(ph) ==
    /\ page_heap' = ph
    /\ UNCHANGED << cpu_caches, transfer_caches, central_free_lists, stat, reg,
                    transfer_span, transfer_object, frame, live, ext_next, turns,
                    sched, supplied, smp >>

\* set_pages(pages), then stat_handler(Some(Alloc)) on a Ready page heap.
PageHeap_request_alloc(pages) ==
    /\ panicked = "" /\ ops < MaxOps
    /\ page_heap.stat = "Ready" /\ IsNone(page_heap.transfer_span)
    /\ PageHeap_only(PageHeap_seed(PageHeap_set_pages(page_heap, pages),
                                   Some(Seed("Alloc", None, None))))
    /\ ops' = ops + 1
    /\ UNCHANGED panicked

\* The registers loaded with a span, then stat_handler(Some(Dealloc)).
PageHeap_request_dealloc(span) ==
    /\ panicked = "" /\ ops < MaxOps
    /\ page_heap.stat = "Ready" /\ IsNone(page_heap.transfer_span)
    /\ PageHeap_only(PageHeap_seed(
           [page_heap EXCEPT !.reg = [ptr |-> Some(span.start),
                                      pages |-> Some(span.len)]],
           Some(Seed("Dealloc", None, None))))
    /\ ops' = ops + 1
    /\ UNCHANGED panicked

\* stat_handler(None) in a status that has work to do.
PageHeap_turn ==
    /\ panicked = ""
    /\ page_heap.stat # "Ready"
    /\ \E r \in {PageHeap_stat_handler(page_heap, None)} :
           /\ r.t # page_heap \/ r.panic
           /\ PageHeap_only(r.t)
           /\ panicked' = IF r.panic THEN "page_heap" ELSE ""
    /\ UNCHANGED ops

\* take_span(): the caller empties the mailbox.
PageHeap_take_span ==
    /\ panicked = ""
    /\ page_heap.stat \in {"Ready", "Uncovered"}
    /\ IsSome(page_heap.transfer_span)
    /\ PageHeap_only([page_heap EXCEPT !.transfer_span = None])
    /\ UNCHANGED << ops, panicked >>

\* put_span(span): the caller answers Insufficient with pages of its own.
PageHeap_refill ==
    /\ panicked = ""
    /\ page_heap.stat = "Insufficient"
    /\ IsNone(page_heap.transfer_span)
    /\ PageHeap_only(PageHeap_put_span(
           page_heap, Some(Span(Unwrap(page_heap.reg.pages), ExtBase))).t)
    /\ UNCHANGED << ops, panicked >>

NextPageHeap ==
    \/ \E pages \in AllocPages : PageHeap_request_alloc(pages)
    \/ \E span \in DeallocSpans : PageHeap_request_dealloc(span)
    \/ PageHeap_turn
    \/ PageHeap_take_span
    \/ PageHeap_refill

SpecPageHeap == Init /\ [][NextPageHeap]_vars


\* ------------------------------------------------------------------------
\* C22: alloc_pages against a reference
\* ------------------------------------------------------------------------
\* The cells from i on hold a run of `pages` unassigned cells.
FreeRunAt(cells, i, pages) ==
    /\ i + pages <= K_PRIMARY_HEAP_LEN
    /\ \A j \in i .. (i + pages - 1) : ~cells[j].assigned

\* The first cell of the lowest-indexed run of `pages` unassigned cells, or
\* K_PRIMARY_HEAP_LEN if there is none.
LowestRun(cells, pages) ==
    CHOOSE i \in 0 .. K_PRIMARY_HEAP_LEN :
        /\ i = K_PRIMARY_HEAP_LEN \/ FreeRunAt(cells, i, pages)
        /\ \A k \in 0 .. (i - 1) : ~FreeRunAt(cells, k, pages)

\* What the reference makes of a page heap asked for `pages` pages.
AllocPagesRef(ph, pages) ==
    LET i == LowestRun(ph.primary_heap, pages)
    IN  IF i = K_PRIMARY_HEAP_LEN THEN [ph EXCEPT !.stat = "Insufficient"]
        ELSE [ph EXCEPT
                 !.stat = "Ready",
                 !.transfer_span = Some(Span(pages, ph.primary_heap[i].page_addr)),
                 !.primary_heap =
                     [c \in HeapIdx |->
                         [assigned |-> @[c].assigned \/ (i <= c /\ c < i + pages),
                          page_addr |-> @[c].page_addr]]]

\* C22: for the bitmap of every page heap that has a request to serve and for
\* every pages in 1..256, alloc_pages succeeds iff a run of `pages`
\* consecutive unassigned cells exists; it then hands out the page_addr of
\* the first cell of the lowest such run and marks exactly the cells of that
\* run; otherwise it reports Insufficient and leaves the bitmap as it was.
C22_AllocPagesMatchesReference ==
    page_heap.stat = "Alloc" =>
        \A pages \in 1 .. K_PRIMARY_HEAP_LEN :
            \E ph \in {PageHeap_set_pages(page_heap, pages)} :
                PageHeap_alloc_pages(ph) = Ok(AllocPagesRef(ph, pages))

\* Cell 0 is free, cell 1 is taken, and a request for two pages was served
\* with cells 2 and 3.
C22_Witness ==
    /\ page_heap.stat = "Ready"
    /\ ~page_heap.primary_heap[0].assigned
    /\ page_heap.primary_heap[1].assigned
    /\ page_heap.transfer_span =
           Some(Span(2, page_heap.primary_heap[2].page_addr))
    /\ page_heap.primary_heap[2].assigned /\ page_heap.primary_heap[3].assigned
    /\ page_heap.reg = [ptr |-> Some(page_heap.primary_heap[2].page_addr),
                        pages |-> Some(2)]


\* ------------------------------------------------------------------------
\* C23: dealloc_pages
\* ------------------------------------------------------------------------
\* Cell i of the primary heap holds a page of [addr, addr + pages * PAGE_SIZE).
Covers(ph, i, addr, pages) ==
    /\ ph.primary_heap[i].page_addr < addr + pages * K_PAGE_SIZE
    /\ ph.primary_heap[i].page_addr + K_PAGE_SIZE > addr

\* [addr, addr + pages * PAGE_SIZE) lies inside the primary heap.
InsideHeap(ph, addr, pages) ==
    /\ ph.primary_heap[0].page_addr <= addr
    /\ addr + pages * K_PAGE_SIZE <=
           ph.primary_heap[0].page_addr + K_PRIMARY_HEAP_LEN * K_PAGE_SIZE

\* C23: a page heap in Dealloc with (addr, pages) in its registers: if the
\* span lies inside the primary heap, exactly the cells that cover it become
\* unassigned and the status becomes Ready; otherwise the bitmap stays as it
\* is, the status becomes Uncovered and Span(pages, addr) is in the mailbox;
\* once the caller has taken that span, the page heap is Ready again.
C23_DeallocPages ==
    [][/\ page_heap.stat = "Dealloc" =>
             LET addr == Unwrap(page_heap.reg.ptr)
                 pages == Unwrap(page_heap.reg.pages)
             IN  /\ panicked' = ""
                 /\ IF InsideHeap(page_heap, addr, pages)
                    THEN /\ page_heap'.stat = "Ready"
                         /\ page_heap'.transfer_span = page_heap.transfer_span
                         /\ \A i \in HeapIdx :
                                /\ page_heap'.primary_heap[i].page_addr =
                                       page_heap.primary_heap[i].page_addr
                                /\ page_heap'.primary_heap[i].assigned =
                                       (/\ page_heap.primary_heap[i].assigned
                                        /\ ~Covers(page_heap, i, addr, pages))
                    ELSE /\ page_heap'.stat = "Uncovered"
                         /\ page_heap'.primary_heap = page_heap.primary_heap
                         /\ page_heap'.transfer_span = Some(Span(pages, addr))
       /\ (page_heap.stat = "Uncovered" /\ IsNone(page_heap.transfer_span)) =>
             /\ page_heap'.stat = "Ready"
             /\ page_heap'.primary_heap = page_heap.primary_heap]_vars

\* A span of cells 2 and 3 was given back, their neighbours still taken, and
\* then a span that reaches past the last cell was refused.
C23_Witness ==
    /\ page_heap.stat = "Uncovered"
    /\ page_heap.transfer_span =
           Some(Span(2, page_heap.primary_heap[K_PRIMARY_HEAP_LEN - 1].page_addr))
    /\ ~page_heap.primary_heap[2].assigned /\ ~page_heap.primary_heap[3].assigned
    /\ page_heap.primary_heap[1].assigned /\ page_heap.primary_heap[4].assigned
    /\ ~page_heap.primary_heap[K_PRIMARY_HEAP_LEN - 1].assigned


\* ------------------------------------------------------------------------
\* C24: the bitmap accounts for the pages that are out
\* ------------------------------------------------------------------------
\* The spans held by a tier or a driver: in a mailbox, on a central free-list
\* (list i holds spans of i + 1 pages), or carved up in a bounded list.
HeldSpans ==
    Elems(page_heap.transfer_span)
    \cup Elems(central_free_lists.transfer_span)
    \cup UNION {Elems(central_free_lists.free_lists[i].transfer_span)
                \cup {Span(i + 1, a) :
                         a \in Elems(central_free_lists.free_lists[i].free_list.list)} :
                i \in SpanIdx}
    \cup UNION {Elems(transfer_caches[k].transfer_span) : k \in ClassIdx}
    \cup UNION {Elems(transfer_span[c]) : c \in Cpus}

\* The address ranges held: the spans, the bounded lists' [base, bound), the
\* callers' live allocations, the objects that wait for their caller in a
\* driver's mailbox, and the objects a driver is asked to free.
HeldRanges ==
    {<< s.start, s.start + s.len * K_PAGE_SIZE >> : s \in HeldSpans}
    \cup UNION {{<< b.base, b.bound >> : b \in Elems(transfer_caches[k].free_lists)} :
                k \in ClassIdx}
    \cup {<< a.ptr, a.ptr + a.layout.size >> : a \in live}
    \cup UNION {{<< o, o + l.size >> : o \in Elems(transfer_object[c]),
                                       l \in Elems(reg[c].layout)} : c \in Cpus}
    \cup UNION {{<< o, o + l.size >> : o \in Elems(reg[c].ptr),
                                       l \in Elems(reg[c].layout)} :
                c \in {d \in Cpus : stat[d] = "Dealloc"}}

\* The addresses held one by one: free objects, batches, object mailboxes,
\* and the storage of bounded lists.
HeldAddrs ==
    UNION {Cached(cpu_caches[c])
           \cup Elems(cpu_caches[c].transfer_object)
           \cup UNION {Elems(b.buf) : b \in Elems(cpu_caches[c].transfer_batch)}
           \cup Elems(transfer_object[c]) : c \in Cpus}
    \cup UNION {UNION {Elems(b.buf) : b \in Elems(transfer_caches[k].transfer_batch)}
                \cup Elems(transfer_caches[k].transfer_list)
                \cup {b.at : b \in Elems(transfer_caches[k].free_lists)} :
                k \in ClassIdx}
    \cup Elems(central_free_lists.transfer_list)
    \cup Elems(central_free_lists.free_bounded_lists.list)

\* The cells of the primary heap whose page a tier, a driver or a caller holds.
OwnedCells ==
    LET ranges == HeldRanges
    IN  {i \in HeapIdx :
            LET lo == page_heap.primary_heap[i].page_addr
                hi == lo + K_PAGE_SIZE
            IN  \/ \E r \in ranges : r[1] < hi /\ lo < r[2]
                \/ \E a \in HeldAddrs : lo <= a /\ a < hi}

\* C24: a cell of the primary heap is assigned iff its page is held by an
\* upper tier or by a live allocation, so the assigned cells number the
\* pages of the spans that are out.
C24_BitmapAccounting ==
    {i \in HeapIdx : page_heap.primary_heap[i].assigned} = OwnedCells


\* ------------------------------------------------------------------------
\* The per-CPU cache on its own: CPU 0's CpuCache driven through its public
\* interface (stat_handler, put_batch, take_object), as Tcmalloc drives it.
\* ------------------------------------------------------------------------
MaxCacheOps == 4
MaxBatches == 14

\* An alignment no object of a batch meets unless the batch starts on it.
BigAlign == 256 * K_PAGE_SIZE

\* The (class, alignment) pairs asked of the cache.
CacheRequests == {<< 0, 8 >>, << 40, BigAlign >>}

\* Every batch is carved from a fresh slice of BigAlign bytes at ext_next; its
\* objects start on the slice, or one object further when that leaves none of
\* them aligned as asked.
BatchStarts(idx, align) ==
    {ext_next} \cup (IF get_size(idx) % align = 0 THEN {}
                     ELSE {ext_next + get_size(idx)})

\* The batch a transfer cache builds: its size_class_idx is 0, so the batch
\* holds get_num_to_move(0) pointers, get_size(idx) apart.
SuppliedBatch(idx, start) ==
    [TransferBatch_new(get_num_to_move(0)) EXCEPT
       !.buf = [j \in 1 .. get_num_to_move(0) |-> start + (j - 1) * get_size(idx)]]

CpuCache_only(cc) ==
    /\ cpu_caches' = [cpu_caches EXCEPT ![0] = cc]
    /\ UNCHANGED << transfer_caches, central_free_lists, page_heap, stat, reg,
                    transfer_span, transfer_object, frame, live, turns, sched,
                    supplied, smp >>

\* stat_handler(Some(Alloc(idx, align))) on a Ready cache.
CpuCache_request_alloc(idx, align) ==
    /\ panicked = "" /\ ops < MaxCacheOps
    /\ cpu_caches[0].stat = "Ready"
    /\ CpuCache_only(CpuCache_stat_handler(
                         cpu_caches[0], Some(Seed("Alloc", idx, align))).t)
    /\ ops' = ops + 1
    /\ UNCHANGED << panicked, ext_next >>

\* take_object(), then stat_handler(Some(Dealloc(idx, ptr))) with the object
\* taken and the class it was served from.
CpuCache_request_dealloc ==
    /\ panicked = "" /\ ops < MaxCacheOps
    /\ cpu_caches[0].stat = "Ready"
    /\ IsSome(cpu_caches[0].transfer_object)
    /\ CpuCache_only(CpuCache_stat_handler(
                         [cpu_caches[0] EXCEPT !.transfer_object = None],
                         Some(Seed("Dealloc", Unwrap(cpu_caches[0].reg.idx),
                                   Unwrap(cpu_caches[0].transfer_object)))).t)
    /\ ops' = ops + 1
    /\ UNCHANGED << panicked, ext_next >>

\* stat_handler(None) in a status that has work to do.
CpuCache_turn ==
    /\ panicked = ""
    /\ cpu_caches[0].stat # "Ready"
    /\ \E r \in {CpuCache_stat_handler(cpu_caches[0], None)} :
           /\ r.t # cpu_caches[0] \/ r.panic
           /\ CpuCache_only(r.t)
           /\ panicked' = IF r.panic THEN "cpu_cache" ELSE ""
    /\ UNCHANGED << ops, ext_next >>

\* put_batch(batch): the caller answers Insufficient with a batch.
CpuCache_supply(start) ==
    /\ panicked = ""
    /\ cpu_caches[0].stat = "Insufficient"
    /\ IsNone(cpu_caches[0].transfer_batch)
    /\ ext_next < ExtBase + MaxBatches * BigAlign
    /\ CpuCache_only(CpuCache_put_batch(
           cpu_caches[0],
           Some(SuppliedBatch(Unwrap(cpu_caches[0].reg.idx), start))).t)
    /\ ext_next' = ext_next + BigAlign
    /\ UNCHANGED << ops, panicked >>

NextCpuCache ==
    \/ \E rq \in CacheRequests : CpuCache_request_alloc(rq[1], rq[2])
    \/ CpuCache_request_dealloc
    \/ CpuCache_turn
    \/ \E start \in IF cpu_caches[0].stat = "Insufficient"
                    THEN BatchStarts(Unwrap(cpu_caches[0].reg.idx),
                                     Unwrap(cpu_caches[0].reg.align))
                    ELSE {} : CpuCache_supply(start)

SpecCpuCache == Init /\ [][NextCpuCache]_vars


\* ------------------------------------------------------------------------
\* C25: byte accounting of the per-CPU cache
\* ------------------------------------------------------------------------
\* Bytes held by the lists of classes 0 .. k - 1.
RECURSIVE ListBytes(_, _)
ListBytes(cc, k) ==
    IF k = 0 THEN 0
    ELSE ListBytes(cc, k - 1) + cc.free_lists[k - 1].len * get_size(k - 1)

\* C25: after any sequence of alloc_aligned_object, dealloc_object,
\* refill_batch and scavenge_batch steps the cache's size is the sum over the
\* 44 classes of the list's len times the class's object size; every list's
\* len counts its nodes, so no pop took the size below zero.
C25_ByteAccounting ==
    \A c \in Cpus :
       /\ cpu_caches[c].size = ListBytes(cpu_caches[c], K_BASE_NUMBER_CLASSES)
       /\ \A k \in ClassIdx :
             cpu_caches[c].free_lists[k].len = Len(cpu_caches[c].free_lists[k].list)

\* A cache that was refilled, served and freed objects, and has just moved a
\* batch out of a list that still holds objects.
C25_Witness ==
    /\ cpu_caches[0].stat = "Scavenge"
    /\ IsSome(cpu_caches[0].transfer_batch)
    /\ Len(Unwrap(cpu_caches[0].transfer_batch).buf) = get_num_to_move(40)
    /\ cpu_caches[0].free_lists[40].len > get_capacity(40)
    /\ cpu_caches[0].free_lists[0].len > 0
    /\ cpu_caches[0].size > cpu_caches[0].max_size


\* ------------------------------------------------------------------------
\* C26: Oversized before Overranged on dealloc_object
\* ------------------------------------------------------------------------
\* The non-empty lists of the cache, and those of them of the smallest color.
NonEmptyLists(cc) == {k \in ClassIdx : cc.free_lists[k].len > 0}

ColdestLists(cc) ==
    {k \in NonEmptyLists(cc) :
        \A j \in NonEmptyLists(cc) : cc.free_lists[k].color <= cc.free_lists[j].color}

\* The lists a step took objects from.
DrainedLists(cc, after) ==
    {k \in ClassIdx : after.free_lists[k].len < cc.free_lists[k].len}

\* C26: when the push of dealloc_object leaves the cache with size > max_size
\* and the list pushed to overranged, the status becomes Oversized, and the
\* scavenge that answers Oversized takes its objects from a coldest non-empty
\* list, whichever list was pushed to.
C26_OversizedBeforeOverranged ==
    [][/\ ( /\ cpu_caches[0].stat = "Dealloc"
            /\ cpu_caches'[0].size > cpu_caches'[0].max_size
            /\ ElasticList_overranged(
                   cpu_caches'[0].free_lists[Unwrap(cpu_caches[0].reg.idx)]) )
          => cpu_caches'[0].stat = "Oversized"
       /\ ( cpu_caches[0].stat = "Oversized" /\ cpu_caches'[0].stat = "Scavenge" )
          => /\ DrainedLists(cpu_caches[0], cpu_caches'[0]) # {}
             /\ DrainedLists(cpu_caches[0], cpu_caches'[0])
                   \subseteq ColdestLists(cpu_caches[0])]_vars


\* ------------------------------------------------------------------------
\* C27: the list an Oversized cache scavenges
\* ------------------------------------------------------------------------
\* C27: an Oversized cache holds a non-empty list, and the stat_handler call
\* that answers Oversized does not panic on cold(), takes objects from exactly
\* one list, one whose color is minimal among the non-empty lists, and leaves
\* them in the batch of a cache in Scavenge.
C27_ScavengesColdest ==
    [][cpu_caches[0].stat = "Oversized"
       => /\ NonEmptyLists(cpu_caches[0]) # {}
          /\ panicked' = ""
          /\ cpu_caches'[0].stat = "Scavenge"
          /\ \E k \in ColdestLists(cpu_caches[0]) :
                /\ DrainedLists(cpu_caches[0], cpu_caches'[0]) = {k}
                /\ IsSome(cpu_caches'[0].transfer_batch)
                /\ Len(Unwrap(cpu_caches'[0].transfer_batch).buf)
                      = cpu_caches[0].free_lists[k].len
                           - cpu_caches'[0].free_lists[k].len]_vars

\* An object of class 40 was freed into an oversized cache whose list 40 is
\* not overranged, and the scavenge emptied list 0 instead.
C27_Witness ==
    /\ cpu_caches[0].stat = "Scavenge"
    /\ cpu_caches[0].reg.idx = Some(40)
    /\ cpu_caches[0].free_lists[40].len > 0
    /\ ~ElasticList_overranged(cpu_caches[0].free_lists[40])
    /\ cpu_caches[0].free_lists[0].len = 0
    /\ cpu_caches[0].free_lists[0].color <= cpu_caches[0].free_lists[40].color
    /\ IsSome(cpu_caches[0].transfer_batch)
    /\ Len(Unwrap(cpu_caches[0].transfer_batch).buf) = get_num_to_move(0)
    /\ cpu_caches[0].size + get_num_to_move(0) * get_size(0) > cpu_caches[0].max_size


\* ------------------------------------------------------------------------
\* C28: what a scavenge leaves of the list it shrinks
\* ------------------------------------------------------------------------
\* C28: a scavenge_batch call moves at most get_num_to_move(idx) objects of
\* one list idx into the batch, and when it leaves that list with no object
\* the list's color and overrange are 0, also when the list held an exact
\* multiple of get_num_to_move(idx) objects; a cache that is Ready again after
\* an Overranged shrink has overrange 0 in the list it shrank.
C28_ShrinkResets ==
    [][/\ ( cpu_caches[0].stat \in {"Overranged", "Oversized"}
            /\ cpu_caches'[0].stat = "Scavenge" )
          => \A k \in DrainedLists(cpu_caches[0], cpu_caches'[0]) :
                /\ cpu_caches[0].free_lists[k].len - cpu_caches'[0].free_lists[k].len
                      <= get_num_to_move(k)
                /\ cpu_caches'[0].free_lists[k].len = 0
                      => /\ cpu_caches'[0].free_lists[k].color = 0
                         /\ cpu_caches'[0].free_lists[k].overrange = 0
       /\ ( cpu_caches[0].stat = "Scavenge" /\ cpu_caches'[0].stat = "Ready" )
          => cpu_caches'[0].free_lists[Unwrap(cpu_caches[0].reg.idx)].overrange = 0]_vars


\* ------------------------------------------------------------------------
\* C29: how refill_span carves a span
\* ------------------------------------------------------------------------
\* The slots of the transfer cache's chain a step changed.
ChangedLists(tc, after) ==
    {i \in 1 .. Len(tc.free_lists) : after.free_lists[i] # tc.free_lists[i]}

\* List b holds the objects of `size` bytes of [base, bound): base, bound and
\* max_len as stated, max_len pointers, `size` apart from base on.
CarvedInto(b, base, bound, size) ==
    /\ b.base = base
    /\ b.bound = bound
    /\ b.max_len = (bound - base - 1) \div size
    /\ b.len = b.max_len
    /\ Len(b.list) = b.max_len
    /\ \A i \in 1 .. Len(b.list) :
          /\ b.list[i] >= base
          /\ b.list[i] + size <= bound
          /\ (b.list[i] - base) % size = 0
          /\ \A j \in 1 .. Len(b.list) : i # j => b.list[i] # b.list[j]

\* C29: the refill_span of the transfer cache of class k, given a span of
\* `pages` pages, initialises one unused bounded list with base the span's
\* start and bound = base + pages * K_PAGE_SIZE, sets max_len to
\* (bound - base - 1) / get_size(k) and pushes exactly max_len pointers,
\* get_size(k) apart, all inside [base, bound), no two objects overlapping.
C29_RefillSpanCarves ==
    [][\A k \in ClassIdx :
          ( /\ IsSome(transfer_caches[k].transfer_span)
            /\ transfer_caches'[k].num = transfer_caches[k].num + 1 )
          => \E i \in 1 .. Len(transfer_caches[k].free_lists) :
                /\ ChangedLists(transfer_caches[k], transfer_caches'[k]) = {i}
                /\ BoundedList_unused(transfer_caches[k].free_lists[i])
                /\ CarvedInto(transfer_caches'[k].free_lists[i],
                              Unwrap(transfer_caches[k].transfer_span).start,
                              Unwrap(transfer_caches[k].transfer_span).start
                                 + Unwrap(transfer_caches[k].transfer_span).len
                                      * K_PAGE_SIZE,
                              get_size(k))]_vars


\* ------------------------------------------------------------------------
\* The transfer cache on its own: the TransferCache of class 0 driven through
\* its public interface (stat_handler, put_list, put_span, put_batch,
\* take_batch).  Its caller takes batches until it starts to hand them back,
\* the latest first; `live` holds the batches it has, `ops` counts those it
\* asked for.
\* ------------------------------------------------------------------------
MaxBatchRequests == 257

\* The numbers of batches after which the caller may start to hand them back.
FreeFrom == {1, 3, 130, MaxBatchRequests}

TransferCache_only(tc) ==
    /\ transfer_caches' = [transfer_caches EXCEPT ![0] = tc]
    /\ UNCHANGED << cpu_caches, central_free_lists, page_heap, stat, reg,
                    transfer_span, transfer_object, frame, turns, sched,
                    supplied, smp >>

\* The batches the caller still has (entry 0 of `live` is what Tcmalloc::init
\* found in use), and the one taken last.
TakenBatches == {a \in live : a.op > 0}

LatestBatch == CHOOSE a \in TakenBatches : \A b \in TakenBatches : a.op >= b.op

\* stat_handler(Some(Alloc)) on a Ready transfer cache.
TransferCache_request_alloc ==
    /\ panicked = "" /\ ops < MaxBatchRequests
    /\ transfer_caches[0].stat = "Ready"
    /\ Cardinality(TakenBatches) = ops
    /\ TransferCache_only(TransferCache_stat_handler(
                              transfer_caches[0], Some(Seed("Alloc", None, None))).t)
    /\ ops' = ops + 1
    /\ UNCHANGED << panicked, live, ext_next >>

\* put_batch(batch), then stat_handler(Some(Dealloc)): the caller hands back
\* the batch it took last.
TransferCache_request_dealloc ==
    /\ panicked = ""
    /\ transfer_caches[0].stat = "Ready"
    /\ TakenBatches # {}
    /\ Cardinality(TakenBatches) < ops \/ ops \in FreeFrom
    /\ TransferCache_only(TransferCache_stat_handler(
           TransferCache_put_batch(transfer_caches[0], Some(LatestBatch.ptr)).t,
           Some(Seed("Dealloc", None, None))).t)
    /\ live' = live \ {LatestBatch}
    /\ UNCHANGED << panicked, ops, ext_next >>

\* stat_handler(None) in a status that has work to do.
TransferCache_turn ==
    /\ panicked = ""
    /\ transfer_caches[0].stat # "Ready"
    /\ \E r \in {TransferCache_stat_handler(transfer_caches[0], None)} :
           /\ r.t # transfer_caches[0] \/ r.panic
           /\ TransferCache_only(r.t)
           /\ panicked' = IF r.panic THEN "transfer_cache" ELSE ""
    /\ UNCHANGED << ops, live, ext_next >>

\* take_batch(): the caller empties the mailbox of a cache in Finish.
TransferCache_take_batch ==
    /\ panicked = ""
    /\ transfer_caches[0].stat = "Finish"
    /\ IsSome(transfer_caches[0].transfer_batch)
    /\ TransferCache_only([transfer_caches[0] EXCEPT !.transfer_batch = None])
    /\ live' = live \cup {Allocation(Unwrap(transfer_caches[0].transfer_batch),
                                     Layout(get_size(0), get_size(0)), ops)}
    /\ UNCHANGED << panicked, ops, ext_next >>

\* put_list(node): the caller answers Lack with the storage of a BoundedList,
\* the next SizeOfBoundedList bytes of the page at ExtBase.
TransferCache_supply_list ==
    /\ panicked = ""
    /\ transfer_caches[0].stat = "Lack"
    /\ IsNone(transfer_caches[0].transfer_list)
    /\ TransferCache_only(TransferCache_put_list(
           transfer_caches[0],
           Some(ExtBase + Len(transfer_caches[0].free_lists) * SizeOfBoundedList)).t)
    /\ UNCHANGED << panicked, ops, live, ext_next >>

\* put_span(span): the caller answers Empty with the next page after ext_next.
TransferCache_supply_span ==
    /\ panicked = ""
    /\ transfer_caches[0].stat = "Empty"
    /\ IsNone(transfer_caches[0].transfer_span)
    /\ TransferCache_only(TransferCache_put_span(
           transfer_caches[0], Some(Span(get_pages(0), ext_next + K_PAGE_SIZE))).t)
    /\ ext_next' = ext_next + get_pages(0) * K_PAGE_SIZE
    /\ UNCHANGED << panicked, ops, live >>

NextTransferCache ==
    \/ TransferCache_request_alloc
    \/ TransferCache_request_dealloc
    \/ TransferCache_turn
    \/ TransferCache_take_batch
    \/ TransferCache_supply_list
    \/ TransferCache_supply_span

SpecTransferCache == Init /\ [][NextTransferCache]_vars


\* ------------------------------------------------------------------------
\* C30: a bounded list never holds more than max_len
\* ------------------------------------------------------------------------
\* C30: in every reachable state every bounded list of every transfer cache
\* has len <= max_len, whatever refill_span, alloc_batch, dealloc_batch of
\* objects taken before and scavenge_span were run; the assertion of is_full()
\* does not fail inside a handler either: a handler of the transfer cache
\* panics in no status but Oversized, where the lists scanned pass it.
C30_BoundedLen ==
    /\ \A k \in ClassIdx :
          \A i \in 1 .. Len(transfer_caches[k].free_lists) :
             transfer_caches[k].free_lists[i].len
                <= transfer_caches[k].free_lists[i].max_len
    /\ panicked = "transfer_cache" => transfer_caches[0].stat = "Oversized"

\* Three spans were carved, every batch taken was handed back, all three
\* lists were full again and scavenge_span has given one span up.
C30_Witness ==
    /\ transfer_caches[0].stat = "Oversized"
    /\ IsSome(transfer_caches[0].transfer_span)
    /\ transfer_caches[0].num = 3
    /\ TakenBatches = {}
    /\ ops = MaxBatchRequests
    /\ \E i, j \in 1 .. Len(transfer_caches[0].free_lists) :
          /\ i # j
          /\ transfer_caches[0].free_lists[i].len > 0
          /\ BoundedList_is_full(transfer_caches[0].free_lists[i])
          /\ transfer_caches[0].free_lists[i].color > 0
          /\ BoundedList_unused(transfer_caches[0].free_lists[j])


\* ------------------------------------------------------------------------
\* C31: slot accounting of the transfer cache
\* ------------------------------------------------------------------------
\* The positions of the chain whose bounded list backs a span: init() gave it
\* a range and no reset() took it away.
BackingLists(tc) ==
    {i \in 1 .. Len(tc.free_lists) : tc.free_lists[i].base < tc.free_lists[i].bound}

FullBackingLists(tc) ==
    {i \in BackingLists(tc) : tc.free_lists[i].len = tc.free_lists[i].max_len}

\* C31: after any sequence of refill_span, alloc_batch, dealloc_batch and
\* scavenge_span, num is the number of bounded lists that back a span and
\* full_num the number of those with len = max_len (so that a span carved and
\* drained out again leaves both as they were).
C31_SlotAccounting ==
    \A k \in ClassIdx :
       /\ transfer_caches[k].num = Cardinality(BackingLists(transfer_caches[k]))
       /\ transfer_caches[k].full_num
             = Cardinality(FullBackingLists(transfer_caches[k]))


\* ------------------------------------------------------------------------
\* C32: what the transfer cache does when it is oversized
\* ------------------------------------------------------------------------
\* C32: dealloc_batch leaves the cache Oversized iff full_num > num / 2 + 1;
\* the stat_handler call of an Oversized cache releases one span, that is, it
\* puts a span in the mailbox and moves to Scavenge without a panic; and the
\* call of a cache in Scavenge whose span was taken checks the rule again and
\* moves to Oversized or to Ready.
C32_OversizeHandling ==
    [][\A k \in ClassIdx :
          LET tc == transfer_caches[k]
              after == transfer_caches'[k]
          IN  /\ (tc.stat = "Dealloc" /\ after.stat # "Dealloc")
                    => (after.stat = "Oversized"
                           <=> after.full_num > (after.num \div K_FULL_SCALE) + 1)
              /\ tc.stat = "Oversized"
                    => /\ panicked' = ""
                       /\ after.stat = "Scavenge"
                       /\ IsSome(after.transfer_span)
                       /\ Cardinality(BackingLists(after))
                             = Cardinality(BackingLists(tc)) - 1
              /\ (tc.stat = "Scavenge" /\ IsNone(tc.transfer_span)
                     /\ after.stat # "Scavenge")
                    => after.stat = IF TransferCache_oversized(tc)
                                    THEN "Oversized" ELSE "Ready"]_vars


\* ------------------------------------------------------------------------
\* C33: the list scavenge_span gives up
\* ------------------------------------------------------------------------
\* The full lists that back a span and have the smallest color among them.
ColdestFullLists(tc) ==
    {i \in FullBackingLists(tc) :
        \A j \in FullBackingLists(tc) :
           tc.free_lists[i].color <= tc.free_lists[j].color}

\* C33: the scavenge_span of an Oversized cache of class k picks a list that
\* backs a span, is full and has the smallest color of such lists, never an
\* unused one; it leaves that list reset and the others as they were, and
\* emits the span that starts at the list's base and has get_pages(k) pages.
C33_ScavengeSpanColdestFull ==
    [][\A k \in ClassIdx :
          transfer_caches[k].stat = "Oversized"
             => /\ panicked' = ""
                /\ \E i \in ColdestFullLists(transfer_caches[k]) :
                      /\ ~BoundedList_unused(transfer_caches[k].free_lists[i])
                      /\ ChangedLists(transfer_caches[k], transfer_caches'[k]) = {i}
                      /\ transfer_caches'[k].free_lists[i]
                            = BoundedList_reset(transfer_caches[k].free_lists[i])
                      /\ transfer_caches'[k].transfer_span
                            = Some(Span(get_pages(k),
                                        transfer_caches[k].free_lists[i].base))]_vars


\* ------------------------------------------------------------------------
\* The transfer cache with a caller that takes batches again after handing
\* some back: from ChurnFrom batches on it may hand back the batch it took
\* last or the one it took first, as long as fewer than MaxHandBacks of the
\* batches asked for are back, and may ask for a batch again.
\* ------------------------------------------------------------------------
MaxChurnRequests == 258
MaxHandBacks == 3
ChurnFrom == MaxChurnRequests - 2

\* The batch taken first of those the caller still has.
OldestBatch == CHOOSE a \in TakenBatches : \A b \in TakenBatches : a.op <= b.op

\* stat_handler(Some(Alloc)) on a Ready transfer cache.
TransferCache_request_alloc_again ==
    /\ panicked = "" /\ ops < MaxChurnRequests
    /\ transfer_caches[0].stat = "Ready"
    /\ Cardinality(TakenBatches) = ops \/ ops >= ChurnFrom
    /\ TransferCache_only(TransferCache_stat_handler(
                              transfer_caches[0], Some(Seed("Alloc", None, None))).t)
    /\ ops' = ops + 1
    /\ UNCHANGED << panicked, live, ext_next >>

\* put_batch(batch), then stat_handler(Some(Dealloc)).
TransferCache_request_dealloc_of(batch) ==
    /\ panicked = ""
    /\ transfer_caches[0].stat = "Ready"
    /\ ops >= ChurnFrom
    /\ ops - Cardinality(TakenBatches) < MaxHandBacks
    /\ TransferCache_only(TransferCache_stat_handler(
           TransferCache_put_batch(transfer_caches[0], Some(batch.ptr)).t,
           Some(Seed("Dealloc", None, None))).t)
    /\ live' = live \ {batch}
    /\ UNCHANGED << panicked, ops, ext_next >>

NextTransferCacheChurn ==
    \/ TransferCache_request_alloc_again
    \/ \E batch \in IF TakenBatches = {} THEN {} ELSE {LatestBatch, OldestBatch} :
          TransferCache_request_dealloc_of(batch)
    \/ TransferCache_turn
    \/ TransferCache_take_batch
    \/ TransferCache_supply_list
    \/ TransferCache_supply_span

SpecTransferCacheChurn == Init /\ [][NextTransferCacheChurn]_vars

\* ------------------------------------------------------------------------
\* C34: the list alloc_batch pops from
\* ------------------------------------------------------------------------
\* The non-empty bounded lists of the largest color among the non-empty ones.
HottestLists(tc) ==
    {i \in 1 .. Len(tc.free_lists) :
        /\ tc.free_lists[i].list # << >>
        /\ \A j \in 1 .. Len(tc.free_lists) :
              tc.free_lists[j].list # << >>
                 => tc.free_lists[i].color >= tc.free_lists[j].color}

\* The bounded lists a step took objects from.
PoppedLists(tc, after) ==
    {i \in 1 .. Len(tc.free_lists) :
        Len(after.free_lists) = Len(tc.free_lists)
           /\ after.free_lists[i].len < tc.free_lists[i].len}

\* C34: an alloc_batch that emits a batch has popped from a hottest list, a
\* non-empty bounded list whose color is maximal among the non-empty ones.
C34_AllocFromHottest ==
    [][\A k \in ClassIdx :
          (transfer_caches[k].stat = "Alloc" /\ transfer_caches'[k].stat = "Finish")
             => PoppedLists(transfer_caches[k], transfer_caches'[k])
                   \cap HottestLists(transfer_caches[k]) # {}]_vars


\* ------------------------------------------------------------------------
\* C35: what alloc_batch emits
\* ------------------------------------------------------------------------
\* The number of free objects on the first n bounded lists of the chain.
RECURSIVE FreeObjects(_, _)
FreeObjects(tc, n) ==
    IF n = 0 THEN 0 ELSE Len(tc.free_lists[n].list) + FreeObjects(tc, n - 1)

C35_WitnessEmpty ==
    transfer_caches[0].stat = "Empty" /\ transfer_caches[0].free_lists # << >>

\* An alloc_batch that found no bounded list at all.
C35_WitnessLack ==
    transfer_caches[0].stat = "Lack" /\ transfer_caches[0].free_lists = << >>


\* ------------------------------------------------------------------------
\* C36: the address ranges of the bounded lists
\* ------------------------------------------------------------------------
\* C36 (state part): the ranges [base, bound) of the bounded lists that back a
\* span are pairwise disjoint and every pointer on a list lies in the range of
\* that list.
C36_RangesDisjoint ==
    \A k \in ClassIdx :
       LET tc == transfer_caches[k]
       IN  /\ \A i, j \in BackingLists(tc) :
                 i # j => \/ tc.free_lists[i].bound <= tc.free_lists[j].base
                          \/ tc.free_lists[j].bound <= tc.free_lists[i].base
           /\ \A i \in 1 .. Len(tc.free_lists) :
                 \A n \in 1 .. Len(tc.free_lists[i].list) :
                    /\ tc.free_lists[i].base <= tc.free_lists[i].list[n]
                    /\ tc.free_lists[i].list[n] < tc.free_lists[i].bound

\* C36 (step part): dealloc_batch finds a list for every pointer of the batch
\* (match_span is never None) and pushes each pointer onto the one list whose
\* range contains it.
C36_DeallocOntoOwner ==
    [][\A k \in ClassIdx :
          LET tc == transfer_caches[k]
              after == transfer_caches'[k]
          IN  (tc.stat = "Dealloc" /\ IsSome(tc.transfer_batch)
                  /\ (after # tc \/ panicked' # panicked))
                 => /\ panicked' = ""
                    /\ Len(after.free_lists) = Len(tc.free_lists)
                    /\ \A n \in 1 .. Len(Unwrap(tc.transfer_batch).buf) :
                          Cardinality({i \in BackingLists(tc) :
                                         BoundedList_infra_metas(
                                             tc.free_lists[i],
                                             Unwrap(tc.transfer_batch).buf[n])}) = 1
                    /\ \A i \in 1 .. Len(tc.free_lists) :
                          LET buf == Unwrap(tc.transfer_batch).buf
                              mine == {n \in 1 .. Len(buf) :
                                         BoundedList_infra_metas(tc.free_lists[i], buf[n])}
                              d == Cardinality(mine)
                              now == after.free_lists[i].list
                          IN  /\ Len(now) = Len(tc.free_lists[i].list) + d
                              /\ {now[m] : m \in 1 .. d} = {buf[n] : n \in mine}
                              /\ SubSeq(now, d + 1, Len(now)) = tc.free_lists[i].list]_vars

\* C36: the ranges of the bounded lists in use are pairwise disjoint, every
\* pointer lies in the range of its list, and dealloc_batch pushes every
\* pointer onto the one list whose range contains it.
C36_ListRanges == []C36_RangesDisjoint /\ C36_DeallocOntoOwner

\* A batch whose pointers went back onto the second of two lists in use.
C36_Witness ==
    LET tc == transfer_caches[0]
    IN  /\ Cardinality(BackingLists(tc)) >= 2
        /\ tc.stat \in {"Ready", "Oversized"}
        /\ ops > Cardinality(TakenBatches)
        /\ \E i \in BackingLists(tc) : tc.free_lists[i].len > 0
        /\ panicked = ""


\* ------------------------------------------------------------------------
\* C37: the color of a list
\* ------------------------------------------------------------------------
\* What a step may do to the color of a list given its len before and after:
\* d objects popped add d, a push or a pop of nothing leaves it, and only a
\* reset, which the callers make on a drained list, sets it to 0.
ColorFollows(len, color, len_after, color_after) ==
    IF len_after < len
    THEN \/ color_after = color + (len - len_after)
         \/ len_after = 0 /\ color_after = 0
    ELSE \/ color_after = color
         \/ len_after = 0 /\ color_after = 0

\* C37: for every elastic list of a CPU cache and every bounded list of a
\* transfer cache the color grows by exactly 1 with each successful pop, plain
\* pop and pop_aligned alike, is left alone by push and by a pop of an empty
\* list, and becomes 0 only by reset.
C37_ColorCountsPops ==
    [][/\ \A c \in Cpus : \A k \in ClassIdx :
             ColorFollows(cpu_caches[c].free_lists[k].len,
                          cpu_caches[c].free_lists[k].color,
                          cpu_caches'[c].free_lists[k].len,
                          cpu_caches'[c].free_lists[k].color)
       /\ \A k \in ClassIdx :
             Len(transfer_caches'[k].free_lists) = Len(transfer_caches[k].free_lists)
                => \A i \in 1 .. Len(transfer_caches[k].free_lists) :
                      ColorFollows(transfer_caches[k].free_lists[i].len,
                                   transfer_caches[k].free_lists[i].color,
                                   transfer_caches'[k].free_lists[i].len,
                                   transfer_caches'[k].free_lists[i].color)]_vars


\* ------------------------------------------------------------------------
\* C39: the storage slots of the carrier pool
\* ------------------------------------------------------------------------
\* The addresses of the BoundedList storage slots alloc_list has handed out:
\* the nodes of the transfer caches' chains, the node waiting in a transfer
\* cache's mailbox and the one in the carrier pool's mailbox.
HandedSlots ==
    UNION {{transfer_caches[k].free_lists[i].at :
               i \in 1 .. Len(transfer_caches[k].free_lists)}
           \cup (IF IsSome(transfer_caches[k].transfer_list)
                 THEN {Unwrap(transfer_caches[k].transfer_list)} ELSE {}) :
           k \in ClassIdx}
    \cup (IF IsSome(central_free_lists.transfer_list)
          THEN {Unwrap(central_free_lists.transfer_list)} ELSE {})

\* C39 (slots): the slots handed out by alloc_list are pairwise
\* non-overlapping: two of them are at least sizeof(BoundedList) bytes apart.
C39_SlotsDisjoint ==
    \A a, b \in HandedSlots :
       a < b => a + SizeOfBoundedList <= b


\* C39 (carving): refill_list takes a 1-page span out of the mailbox and adds
\* floor(PAGE_SIZE / sizeof(BoundedList)) slots to the pool, each of them
\* entirely inside the span.
C39_RefillCarves ==
    [][(central_free_lists.stat = "Empty" /\ IsSome(central_free_lists.transfer_span)
           /\ central_free_lists'.stat = "Alloc")
          => LET span == Unwrap(central_free_lists.transfer_span)
                 pool == central_free_lists.free_bounded_lists
                 after == central_free_lists'.free_bounded_lists
                 added == after.len - pool.len
             IN  /\ span.len = 1
                 /\ IsNone(central_free_lists'.transfer_span)
                 /\ added = K_PAGE_SIZE \div SizeOfBoundedList
                 /\ \A i \in 1 .. added :
                       /\ span.start <= after.list[i]
                       /\ after.list[i] + SizeOfBoundedList
                             <= span.start + span.len * K_PAGE_SIZE]_vars

\* C39: refill_list splits a 1-page span into floor(PAGE_SIZE /
\* sizeof(BoundedList)) slots inside the span, and the slots alloc_list hands
\* out one at a time do not overlap.
C39_CarrierSlots == []C39_SlotsDisjoint /\ C39_RefillCarves


\* ------------------------------------------------------------------------
\* C40: the single-slot mailboxes
\* ------------------------------------------------------------------------
\* A step leaves an occupied mailbox as it is or empties it.
Kept(box, after) == IsSome(box) /\ IsSome(after) => after = box

\* C40: no step of the driver stores into a mailbox that is occupied: an
\* object, batch, span or carrier list placed in a mailbox by put_object,
\* put_span, put_batch or put_list stays there until it is taken.
C40_MailboxesNotOverwritten ==
    [][/\ \A c \in Cpus :
             /\ Kept(transfer_object[c], transfer_object'[c])
             /\ Kept(transfer_span[c], transfer_span'[c])
             /\ Kept(cpu_caches[c].transfer_batch, cpu_caches'[c].transfer_batch)
             /\ Kept(cpu_caches[c].transfer_object, cpu_caches'[c].transfer_object)
       /\ \A k \in ClassIdx :
             /\ Kept(transfer_caches[k].transfer_batch, transfer_caches'[k].transfer_batch)
             /\ Kept(transfer_caches[k].transfer_span, transfer_caches'[k].transfer_span)
             /\ Kept(transfer_caches[k].transfer_list, transfer_caches'[k].transfer_list)
       /\ \A i \in SpanIdx :
             Kept(central_free_lists.free_lists[i].transfer_span,
                  central_free_lists'.free_lists[i].transfer_span)
       /\ Kept(central_free_lists.transfer_span, central_free_lists'.transfer_span)
       /\ Kept(central_free_lists.transfer_list, central_free_lists'.transfer_list)
       /\ Kept(page_heap.transfer_span, page_heap'.transfer_span)]_vars


\* ------------------------------------------------------------------------
\* The central span lists on their own: each CentralFreeList driven through
\* its public interface (stat_handler, put_span, take_span).  The caller asks
\* for spans, answers Empty with fresh pages, and hands spans it took back to
\* the list of their length.
\* ------------------------------------------------------------------------
MaxSpanOps == 2

CentralFreeList_only(i, cfl) ==
    /\ central_free_lists' = [central_free_lists EXCEPT !.free_lists[i] = cfl]
    /\ UNCHANGED << cpu_caches, transfer_caches, page_heap, stat, reg,
                    transfer_span, transfer_object, frame, turns, sched,
                    supplied, smp >>

\* The spans the caller has taken and not handed back.
TakenSpans == {a \in live : a.op > 0}

\* stat_handler(Some(Alloc)) on a Ready list.
CentralFreeList_request_alloc(i) ==
    /\ panicked = "" /\ ops < MaxSpanOps
    /\ central_free_lists.free_lists[i].stat = "Ready"
    /\ IsNone(central_free_lists.free_lists[i].transfer_span)
    /\ CentralFreeList_only(i, CentralFreeList_stat_handler(
                                   central_free_lists.free_lists[i],
                                   Some(Seed("Alloc", None, None))))
    /\ ops' = ops + 1
    /\ UNCHANGED << panicked, live, ext_next >>

\* put_span(span), then stat_handler(Some(Dealloc)).
CentralFreeList_request_dealloc(i, a) ==
    /\ panicked = ""
    /\ central_free_lists.free_lists[i].stat = "Ready"
    /\ IsNone(central_free_lists.free_lists[i].transfer_span)
    /\ a.layout.size = (i + 1) * K_PAGE_SIZE
    /\ CentralFreeList_only(i, CentralFreeList_stat_handler(
           CentralFreeList_put_span(central_free_lists.free_lists[i],
                                    Some(Span(i + 1, a.ptr))).t,
           Some(Seed("Dealloc", None, None))))
    /\ live' = live \ {a}
    /\ UNCHANGED << panicked, ops, ext_next >>

\* stat_handler(None) on a list that is not Ready.
CentralFreeList_turn(i) ==
    /\ panicked = ""
    /\ central_free_lists.free_lists[i].stat # "Ready"
    /\ CentralFreeList_stat_handler(central_free_lists.free_lists[i], None)
          # central_free_lists.free_lists[i]
    /\ CentralFreeList_only(i, CentralFreeList_stat_handler(
                                   central_free_lists.free_lists[i], None))
    /\ UNCHANGED << panicked, ops, live, ext_next >>

\* put_span(span): the caller answers Empty with the pages after ext_next.
CentralFreeList_supply_span(i) ==
    /\ panicked = ""
    /\ central_free_lists.free_lists[i].stat = "Empty"
    /\ IsNone(central_free_lists.free_lists[i].transfer_span)
    /\ CentralFreeList_only(i, CentralFreeList_put_span(
                                   central_free_lists.free_lists[i],
                                   Some(Span(i + 1, ext_next))).t)
    /\ ext_next' = ext_next + (i + 1) * K_PAGE_SIZE
    /\ UNCHANGED << panicked, ops, live >>

\* take_span(): the caller empties the mailbox of a Ready list.
CentralFreeList_take_span(i) ==
    /\ panicked = ""
    /\ central_free_lists.free_lists[i].stat = "Ready"
    /\ IsSome(central_free_lists.free_lists[i].transfer_span)
    /\ CentralFreeList_only(i, [central_free_lists.free_lists[i]
                                   EXCEPT !.transfer_span = None])
    /\ live' = live \cup
          {Allocation(Unwrap(central_free_lists.free_lists[i].transfer_span).start,
                      Layout(Unwrap(central_free_lists.free_lists[i].transfer_span).len
                                * K_PAGE_SIZE, K_PAGE_SIZE),
                      ops)}
    /\ UNCHANGED << panicked, ops, ext_next >>

NextCentral ==
    \/ \E i \in SpanIdx : CentralFreeList_request_alloc(i)
    \/ \E i \in SpanIdx : \E a \in TakenSpans : CentralFreeList_request_dealloc(i, a)
    \/ \E i \in SpanIdx : CentralFreeList_turn(i)
    \/ \E i \in SpanIdx : CentralFreeList_supply_span(i)
    \/ \E i \in SpanIdx : CentralFreeList_take_span(i)

SpecCentral == Init /\ [][NextCentral]_vars

\* ------------------------------------------------------------------------
\* C38: the accounting of the central span lists
\* ------------------------------------------------------------------------
\* The free pages of the span lists 0 .. n - 1: list i holds spans of i + 1
\* pages.
RECURSIVE CentralPages(_, _)
CentralPages(cfls, n) ==
    IF n = 0 THEN 0
    ELSE CentralPages(cfls, n - 1)
            + Len(cfls.free_lists[n - 1].free_list.list) * n

\* C38: every list's len counts its spans, so that the free pages are the sum
\* over p in 1 .. 7 of p times the length of list p; dealloc_span leaves the
\* list Oversized, Overranged or Ready, Overranged exactly when the list's
\* overrange counter exceeds K_MAX_OVERRANGES; alloc_span on list p emits a
\* span of exactly p pages.
C38_SpanAccounting ==
    [][\A i \in SpanIdx :
          LET cfl == central_free_lists.free_lists[i]
              after == central_free_lists'.free_lists[i]
          IN  /\ after.free_list.len = Len(after.free_list.list)
              /\ (cfl.stat = "Dealloc" /\ IsSome(cfl.transfer_span) /\ after # cfl)
                    => /\ after.stat \in {"Oversized", "Overranged", "Ready"}
                       /\ after.stat = "Overranged"
                             <=> after.free_list.overrange > K_MAX_OVERRANGES
                       /\ CentralPages(central_free_lists', K_BASE_NUMBER_SPAN)
                             = CentralPages(central_free_lists, K_BASE_NUMBER_SPAN)
                                  + (i + 1)
              /\ (cfl.stat = "Alloc" /\ after.stat = "Ready")
                    => /\ IsSome(after.transfer_span)
                       /\ Unwrap(after.transfer_span).len = i + 1
                       /\ CentralPages(central_free_lists', K_BASE_NUMBER_SPAN)
                             = CentralPages(central_free_lists, K_BASE_NUMBER_SPAN)
                                  - (i + 1)]_vars

==========================================================================
